---- MODULE Spec2Model ----
(***************************************************************************)
(* A model of the backup tool: the content-addressed blob store with its   *)
(* .partial/rename write protocol, the snapshot builder (scan, hash cache, *)
(* ignore matcher, sorted listings), snapshot heads, reachability, prune,  *)
(* remove and restore.                                                     *)
(*                                                                         *)
(* Byte strings are sequences of lines, a line a sequence of tokens (a     *)
(* token stands for a run of characters without '/', '!' or '*').          *)
(* MD5 is modelled as an injective function: a digest is the payload it    *)
(* was computed from, wrapped in a record.                                 *)
(***************************************************************************)
EXTENDS Integers, Sequences, FiniteSets, TLC

\* ------------------------------------------------------------------ bounds
\* operations (backup, prune, remove) started in one behaviour
MaxOps == 2
\* changes made to the source trees in one behaviour
MaxEdits == 1
\* backup runs killed between two steps in one behaviour
MaxCrashes == 1
\* the blob files damaged from outside in one behaviour of SpecDamaged
MaxDamage == 2

\* ------------------------------------------------------- small function kit
EmptyFcn == [z \in {} |-> TRUE]
Put(f, k, v) == [z \in DOMAIN f \cup {k} |-> IF z = k THEN v ELSE f[z]]
Drop(f, S) == [z \in DOMAIN f \ S |-> f[z]]

RECURSIVE Flatten(_)
Flatten(ss) == IF ss = <<>> THEN <<>> ELSE Head(ss) \o Flatten(Tail(ss))

RECURSIVE SumLen(_)
SumLen(toks) == IF toks = <<>> THEN 0 ELSE Len(Head(toks)) + SumLen(Tail(toks))

\* ------------------------------------------------------ contexts and paths
\* The invoking contexts: three source directories and the store itself.
Sources == {"A", "B", "U"}
Contexts == Sources \cup {"H"}

\* Backup.Top is set in a source directory and empty in headless mode
HasTop(ctx) == ctx \in Sources

\* Backup.ProjectName, from config.toml's name key; source U has none.
ProjectName(ctx) == CASE ctx = "A" -> "pa" [] ctx = "B" -> "pb" [] OTHER -> ""

\* A path is the sequence of its components relative to Top; Top is <<>>.
TopDir == <<>>
Paths == {<<".backup">>, <<".backupignore">>, <<".gitignore">>, <<"a">>, <<"l">>,
          <<"sub">>, <<"sub", ".backup">>, <<"sub", ".backupignore">>, <<"sub", "c">>}
DirPaths == {TopDir, <<"sub">>}

\* filepath.Dir, filepath.Base and filepath.Join
DirOf(p) == SubSeq(p, 1, Len(p) - 1)
Base(p) == p[Len(p)]
Join(dir, name) == Append(dir, name)

\* filepath.ToSlash(filepath.Rel(dir, p)) as tokens, for p below dir
RECURSIVE Slashed(_)
Slashed(p) == IF Len(p) <= 1 THEN p ELSE <<Head(p), "/">> \o Slashed(Tail(p))
RelPath(dir, p) == Slashed(SubSeq(p, Len(dir) + 1, Len(p)))

\* the kind of entry each path of the model can hold
KindOf(p) == CASE p = <<"l">> -> "L" [] p = <<"sub">> -> "D" [] OTHER -> "F"

\* ------------------------------------------------------------ byte strings
Hi == << <<"hi">> >>
Ho == << <<"ho">> >>
FileContents == {Hi, Ho}
LinkTargets == {<< <<"a">> >>, << <<"sub">> >>}
IgnoreTexts == { << <<"l">> >>,
                 << <<"sub", "/">> >>,
                 << <<"*">>, <<"!", "a">> >> }
NoBytes == <<>>

\* info.Size(): the characters of every line plus the newlines between lines
Size(c) == IF c = <<>> THEN 0 ELSE SumLen(Flatten(c)) + Len(c) - 1

\* a source tree node: t is "-" (absent), "F", "L" or "D"; c the file's bytes
\* or the link's target; mt the modification time in ms
Absent == [t |-> "-", c |-> NoBytes, mt |-> 0]
FileNode(c, mt) == [t |-> "F", c |-> c, mt |-> mt]
LinkNode(c) == [t |-> "L", c |-> c, mt |-> 0]
DirNode == [t |-> "D", c |-> NoBytes, mt |-> 0]

\* ------------------------------------------------------------------ digests
FilePayload(c) == [raw |-> c, ents |-> <<>>]
DirPayload(lines) == [raw |-> NoBytes, ents |-> lines]

\* md5 of a payload, rendered by %x
MD5(payload) == [md5 |-> payload]

\* The order of two digests as strings: the rendering of a digest is modelled
\* by a sequence of numbers, compared lexicographically.
TokenList == <<"!", "*", "/", ".backup", ".backupignore", ".gitignore", "a", "c", "hi",
               "ho", "l", "sub">>
TokRank(t) == CHOOSE i \in 1..Len(TokenList) : TokenList[i] = t
TypeOrd(t) == CASE t = "F" -> 0 [] t = "D" -> 1 [] OTHER -> 2

RECURSIVE RawCode(_)
RawCode(c) ==
    IF c = <<>> THEN <<>>
    ELSE [i \in 1..Len(Head(c)) |-> TokRank(Head(c)[i]) + 3] \o <<2>> \o RawCode(Tail(c))

RECURSIVE Hex(_)
RECURSIVE EntsCode(_)
EntsCode(es) ==
    IF es = <<>> THEN <<>>
    ELSE <<TypeOrd(Head(es).t) + 3>> \o Hex(Head(es).h) \o <<TokRank(Head(es).n) + 3, 1>>
         \o EntsCode(Tail(es))
Hex(d) == RawCode(d.md5.raw) \o <<0>> \o EntsCode(d.md5.ents)

RECURSIVE SeqLess(_, _)
SeqLess(s, t) ==
    IF t = <<>> THEN FALSE
    ELSE IF s = <<>> THEN TRUE
    ELSE IF Head(s) # Head(t) THEN Head(s) < Head(t)
    ELSE SeqLess(Tail(s), Tail(t))

\* hi < hj on the hex strings
HashLess(hi, hj) == SeqLess(Hex(hi), Hex(hj))
\* ei.Name() < ej.Name()
NameLess(ni, nj) == TokRank(ni) < TokRank(nj)

\* Store.DataStore(hash): data/<hash[:2]>/<hash>.gz. A path under data/ is
\* the digest in its name and whether the name ends in ".partial".
DataStore(hash) == [hash |-> hash, partial |-> FALSE]

\* ----------------------------------------------------------- ignore matcher
\* IgnoreMatcher.loadFile, one line
ParseLine(line) ==
    LET neg == line # <<>> /\ Head(line) = "!"
        l1 == IF neg THEN Tail(line) ELSE line
        dirOnly == l1 # <<>> /\ l1[Len(l1)] = "/"
        l2 == IF dirOnly THEN SubSeq(l1, 1, Len(l1) - 1) ELSE l1
        rooted == l2 # <<>> /\ Head(l2) = "/"
        l3 == IF rooted THEN Tail(l2) ELSE l2
    IN [pattern |-> l3, isNegation |-> neg, isDirOnly |-> dirOnly, isRooted |-> rooted]

\* IgnoreMatcher.loadFile: blank lines are skipped
RECURSIVE loadFile(_)
loadFile(text) ==
    IF text = <<>> THEN <<>>
    ELSE (IF Head(text) = <<>> THEN <<>> ELSE <<ParseLine(Head(text))>>) \o loadFile(Tail(text))

\* the lines of the ignore file of the name in directory dir; os.Stat finds
\* the file (a directory of that name cannot be opened as one: none in the model)
IgnoreLines(tree, dir, name) ==
    IF Join(dir, name) \in Paths /\ tree[Join(dir, name)].t = "F"
    THEN tree[Join(dir, name)].c
    ELSE <<>>

\* a variant that reads .backupignore first
LoadIgnoreFilesBackupFirst(tree, dir) ==
    loadFile(IgnoreLines(tree, dir, ".backupignore"))
    \o loadFile(IgnoreLines(tree, dir, ".gitignore"))

\* IgnoreMatcher.LoadIgnoreFiles for directory dir of a source tree: the
\* patterns of .gitignore, then those of .backupignore
LoadIgnoreFiles(tree, dir) ==
    loadFile(IgnoreLines(tree, dir, ".gitignore"))
    \o loadFile(IgnoreLines(tree, dir, ".backupignore"))

\* path.Match on tokens: '*' matches any run of tokens without '/'
RECURSIVE globMatch(_, _)
globMatch(pattern, name) ==
    IF pattern = <<>> THEN name = <<>>
    ELSE IF Head(pattern) = "*"
         THEN \E k \in 0..Len(name) :
                 /\ \A i \in 1..k : name[i] # "/"
                 /\ globMatch(Tail(pattern), SubSeq(name, k + 1, Len(name)))
         ELSE /\ name # <<>>
              /\ Head(name) = Head(pattern)
              /\ globMatch(Tail(pattern), Tail(name))

\* whether pattern p of a matcher anchored at dir matches path
PatternMatches(p, dir, path, isDir) ==
    LET relPath == RelPath(dir, path)
    IN /\ ~(p.isDirOnly /\ ~isDir)
       /\ IF p.isRooted \/ (\E i \in 1..Len(p.pattern) : p.pattern[i] = "/")
          THEN globMatch(p.pattern, relPath)
          ELSE globMatch(p.pattern, <<relPath[Len(relPath)]>>)

\* a variant that checks the local patterns in file order: the first match wins
RECURSIVE MatchLocalFirst(_, _, _, _, _)
MatchLocalFirst(patterns, i, dir, path, isDir) ==
    IF i = 0 THEN "none"
    ELSE LET p == patterns[Len(patterns) - i + 1]
         IN IF PatternMatches(p, dir, path, isDir)
            THEN (IF p.isNegation THEN "include" ELSE "ignore")
            ELSE MatchLocalFirst(patterns, i - 1, dir, path, isDir)

\* the local patterns in reverse order from index i: "ignore", "include", or
\* "none" when no pattern matches
RECURSIVE MatchLocal(_, _, _, _, _)
MatchLocal(patterns, i, dir, path, isDir) ==
    IF i = 0 THEN "none"
    ELSE IF PatternMatches(patterns[i], dir, path, isDir)
         THEN (IF patterns[i].isNegation THEN "include" ELSE "ignore")
         ELSE MatchLocal(patterns, i - 1, dir, path, isDir)

\* IgnoreMatcher.Match: chain is the matcher's chain, nearest first, each
\* [dir, patterns]; TRUE when the path should be ignored
RECURSIVE Match(_, _, _)
Match(chain, path, isDir) ==
    IF chain = <<>> THEN FALSE
    ELSE LET m == Head(chain)
             r == MatchLocal(m.patterns, Len(m.patterns), m.dir, path, isDir)
         IN IF r = "none" THEN Match(Tail(chain), path, isDir) ELSE r = "ignore"

\* ----------------------------------------------------------------- state
VARIABLES
    src,        \* src[s][p]: the node at path p of source tree s
    cacheFile,  \* cacheFile[s]: the hash-cache file of source s, key -> digest
    data,       \* the files under data/: path -> [bytes, complete]
    heads,      \* snapshots/[<project>/]<timestamp>: <<dir, ts>> -> content
    now,        \* the clock, in seconds
    op,         \* the invocation in progress (a Backup object and its position)
    out,        \* what the last finished invocation reported
    taken,      \* history: for each head written, the source tree it was taken of
    nops,       \* operations started
    nedits,     \* source edits made
    ncrashes,   \* invocations killed
    nfailed,    \* backups that ended with an error
    ndamage     \* files under data/ damaged from outside

vars == <<src, cacheFile, data, heads, now, op, out, taken, nops, nedits, ncrashes, nfailed, ndamage>>

\* -------------------------------------------------------------- hash cache
\* the key of HashCache.FileHash: "<mtime_ms> <size> <relpath>"
CacheKey(node, relPath) == [mt |-> node.mt, size |-> Size(node.c), rel |-> relPath]

\* HashCache.FileHash on the file at path p of tree: the digest returned
FileHash(hc, tree, p) ==
    LET key == CacheKey(tree[p], p)
    IN IF key \in DOMAIN hc THEN hc[key] ELSE MD5(FilePayload(tree[p].c))

\* HashCache.FileHash: the cache after hashing every file of the set ps
FileHashAll(hc, tree, ps) ==
    [key \in DOMAIN hc \cup {CacheKey(tree[p], p) : p \in ps} |->
        IF key \in DOMAIN hc THEN hc[key]
        ELSE LET p == CHOOSE q \in ps : CacheKey(tree[q], q) = key
             IN MD5(FilePayload(tree[p].c))]

\* parseKeyPrefix: a key is its three fields; the text of a key that stops
\* after the size has no path, and does not parse
parseKeyPrefix(key) == [ok |-> key.rel # <<>>, t |-> key.mt, s |-> key.size, rel |-> key.rel]

\* os.Stat(filepath.Join(hc.top, relPath)) finds a file
StatFinds(tree, rel) == rel \in Paths /\ tree[rel].t = "F"

\* a variant that removes only the entries of files that are gone
HashCachePruneGone(hc, tree) ==
    [key \in {k \in DOMAIN hc : parseKeyPrefix(k).ok /\ StatFinds(tree, k.rel)} |-> hc[key]]

\* HashCache.Prune: the entries kept, those whose key parses and whose file
\* exists with the mtime and size of the key
HashCachePrune(hc, tree) ==
    LET keep == {key \in DOMAIN hc :
                    LET k == parseKeyPrefix(key)
                    IN /\ k.ok
                       /\ StatFinds(tree, k.rel)
                       /\ tree[k.rel].mt = k.t
                       /\ Size(tree[k.rel].c) = k.s}
    IN [key \in keep |-> hc[key]]

\* ------------------------------------------------------- snapshot builder
NoHash == MD5(FilePayload(NoBytes))
RootEntry == [t |-> "D", h |-> NoHash, n |-> ".", p |-> TopDir, tgt |-> NoBytes]

\* a variant that orders the entries by name alone
LessByName(ei, ej) == NameLess(ei.n, ej.n)

\* entrySorter.Less; a directory entry's hash is compared only with that of
\* another directory entry, which the trees of the model never hold twice in
\* one directory
Less(ei, ej) ==
    IF ei.t # ej.t THEN TypeOrd(ei.t) < TypeOrd(ej.t)
    ELSE IF ei.h # ej.h THEN HashLess(ei.h, ej.h)
    ELSE NameLess(ei.n, ej.n)

\* sort.Sort(&entrySorter{entries}) on the set of entries
RECURSIVE SortEntries(_)
SortEntries(es) ==
    IF es = {} THEN <<>>
    ELSE LET m == CHOOSE e \in es : \A f \in es \ {e} : Less(e, f)
         IN <<m>> \o SortEntries(es \ {m})

\* os.ReadDir(e.path): the paths present in directory dir
ReadDir(tree, dir) == {p \in Paths : DirOf(p) = dir /\ tree[p].t # "-"}

\* the matcher chain of directory dir, nearest first, from the patterns each
\* matcher loaded
RECURSIVE Chain(_, _)
Chain(pat, dir) ==
    <<[dir |-> dir, patterns |-> pat[dir]]>>
    \o (IF dir = TopDir THEN <<>> ELSE Chain(pat, DirOf(dir)))

\* a variant of the scan that consults no ignore pattern
ScanIgnoredNone(tree, pat, dir) == {}

\* DirectoryEntry.scan: the children the ignore chain excludes
ScanIgnored(tree, pat, dir) ==
    {p \in ReadDir(tree, dir) :
        \/ Match(Chain(pat, dir), p, tree[p].t = "D")
        \/ (tree[p].t = "L" /\ Match(Chain(pat, dir), p, FALSE))}

\* DirectoryEntry.scan: the children kept
ScanKept(tree, pat, dir) ==
    {p \in ReadDir(tree, dir) \ ScanIgnored(tree, pat, dir) :
        tree[p].t = "L" \/ Base(p) # ".backup"}

\* DirectoryEntry.scan: the entries built for the kept children, sorted
ScanEntries(hc, tree, pat, dir) ==
    SortEntries({ [t |-> tree[p].t,
                   h |-> CASE tree[p].t = "F" -> FileHash(hc, tree, p)
                           [] tree[p].t = "L" -> MD5(FilePayload(tree[p].c))
                           [] OTHER -> NoHash,
                   n |-> Base(p),
                   p |-> p,
                   tgt |-> IF tree[p].t = "L" THEN tree[p].c ELSE NoBytes]
                  : p \in ScanKept(tree, pat, dir) })

\* DirectoryEntry.ContentAsText and DirectoryEntry.Hash of a scanned directory
RECURSIVE ContentAsText(_, _)
DirHash(ents, dir) == MD5(DirPayload(ContentAsText(ents, dir)))
ContentAsText(ents, dir) ==
    [i \in 1..Len(ents[dir]) |->
        LET child == ents[dir][i]
        IN [t |-> child.t,
            h |-> IF child.t = "D" THEN DirHash(ents, child.p) ELSE child.h,
            n |-> child.n]]

\* ---------------------------------------------------------- blob store
\* a variant that writes in place: the bytes go straight to the final path
TempDestInPlace(dest) == dest

\* tempDest := dest + ".partial"
TempDest(dest) == [dest EXCEPT !.partial = TRUE]

\* a variant that never finds the blob in the store
ExistsNever(d, path) == FALSE

\* a variant that takes the *.partial file of a path for the file
ExistsOrPartial(d, path) == path \in DOMAIN d \/ TempDest(path) \in DOMAIN d

\* os.Stat(dest) succeeds
Exists(d, path) == path \in DOMAIN d

\* os.Create(tempDest): an empty file, truncated if it was there
CreateFile(d, path) == Put(d, path, [bytes |-> FilePayload(NoBytes), complete |-> FALSE])

\* the gzip stream written and closed
WriteGzip(d, path, payload) == Put(d, path, [bytes |-> payload, complete |-> TRUE])

\* os.Rename(tempDest, dest)
Rename(d, from, to) ==
    IF from = to THEN d ELSE Put(Drop(d, {from}), to, d[from])

\* the size of a file under data/: a closed gzip stream has a header, and a
\* file that is not one has the bytes it was given
FileSize(f) == IF f.complete THEN 1 + Size(f.bytes.raw) + Len(f.bytes.ents)
               ELSE Size(f.bytes.raw) + Len(f.bytes.ents)

\* Backup.GetAllBlobs: the digests of the files whose name ends in ".gz"
GetAllBlobs(d) == {path.hash : path \in {q \in DOMAIN d : ~q.partial}}

\* ------------------------------------------------------- snapshot heads
\* the directory the heads of a context are written to, "" for snapshots/
HeadDir(ctx) == ProjectName(ctx)

\* a variant that never sees the head file of the current second
HeadTakenNever(hs, key) == FALSE

\* runBackup: os.Stat(headFile) finds a file with the timestamp's name
HeadTaken(hs, key) == key \in DOMAIN hs

\* time.ParseInLocation("060102-150405", name): a head file's name is the
\* number of the second it renders; a negative number stands for a file name
\* that is no timestamp
ParsesAsTime(name) == name >= 0

\* a variant that accepts every file name
ValidHeadAnyName(hs, key) == key \in DOMAIN hs /\ Len(hs[key]) > 0

\* NewBackupRoot succeeds on the head file: its name parses and its content
\* is not empty
ValidHead(hs, key) == key \in DOMAIN hs /\ ParsesAsTime(key[2]) /\ Len(hs[key]) > 0

\* a variant that lists the heads of the invoking project only
ProjectRootsOnly(b, hs) ==
    {key \in DOMAIN hs : key[1] # "" /\ Len(hs[key]) > 0
                         /\ (ProjectName(b) # "" => key[1] = ProjectName(b))}

\* Backup.AllBackupRoots: the head files in the sub-directories of snapshots/
AllBackupRoots(b, hs) == {key \in DOMAIN hs : key[1] # "" /\ ValidHead(hs, key)}

\* Backup.BackupRoots: the heads of the project, or in a context without a
\* project name those in every sub-directory of snapshots/
BackupRoots(b, hs) ==
    IF ProjectName(b) # ""
    THEN {key \in DOMAIN hs : key[1] = ProjectName(b) /\ ValidHead(hs, key)}
    ELSE {key \in DOMAIN hs : key[1] # "" /\ ValidHead(hs, key)}

\* Backup.FindBackupRoot: the head file a name given on the command line
\* resolves to; ref.proj is "" for a bare timestamp
HeadPath(b, ref) ==
    IF ProjectName(b) # "" /\ ref.proj = "" THEN <<ProjectName(b), ref.ts>>
    ELSE <<ref.proj, ref.ts>>
FindBackupRoot(b, hs, ref) == ValidHead(hs, HeadPath(b, ref))

\* BackupRoot.Hash
RootHash(hs, key) == hs[key][1]

\* --------------------------------------------------------- reachability
RECURSIVE SetToSeq(_)
SetToSeq(S) == IF S = {} THEN <<>> ELSE LET x == CHOOSE y \in S : TRUE
                                       IN <<x>> \o SetToSeq(S \ {x})

\* the lines a reader of the blob as a directory listing gets: those of at
\* least 36 bytes, which the lines of a listing are and the short file
\* contents of the model are not
ListingLines(d, hash) == d[DataStore(hash)].bytes.ents

\* a variant that keeps no set of visited directories, cut off when it has
\* read more files than the store holds
RECURSIVE traverseReachableUnmarked(_, _, _, _, _)
traverseReachableUnmarked(d, todo, reachable, visitedDirs, opened) ==
    IF todo = <<>> \/ Len(opened) > Cardinality(DOMAIN d)
    THEN [err |-> FALSE, reachable |-> reachable, opened |-> opened]
    ELSE LET hash == Head(todo)
         IN IF ~Exists(d, DataStore(hash))
            THEN traverseReachableUnmarked(d, Tail(todo), reachable, visitedDirs, opened)
            ELSE IF ~d[DataStore(hash)].complete
            THEN [err |-> TRUE, reachable |-> {}, opened |-> Append(opened, hash)]
            ELSE LET lines == ListingLines(d, hash)
                     kids == {lines[i].h : i \in 1..Len(lines)}
                     dirs == {lines[i].h : i \in {j \in 1..Len(lines) : lines[j].t = "D"}}
                 IN traverseReachableUnmarked(d, SetToSeq(dirs) \o Tail(todo),
                                              reachable \cup kids, visitedDirs,
                                              Append(opened, hash))

\* Backup.traverseReachable, as a worklist: todo holds the digests to open,
\* opened the digests whose file os.Open has opened, in that order
RECURSIVE traverseReachable(_, _, _, _, _)
traverseReachable(d, todo, reachable, visitedDirs, opened) ==
    IF todo = <<>> THEN [err |-> FALSE, reachable |-> reachable, opened |-> opened]
    ELSE LET hash == Head(todo)
         IN IF hash \in visitedDirs
            THEN traverseReachable(d, Tail(todo), reachable, visitedDirs, opened)
            ELSE IF ~Exists(d, DataStore(hash))
            THEN traverseReachable(d, Tail(todo), reachable, visitedDirs \cup {hash}, opened)
            ELSE IF ~d[DataStore(hash)].complete
            THEN [err |-> TRUE, reachable |-> {}, opened |-> Append(opened, hash)]
            ELSE LET lines == ListingLines(d, hash)
                     kids == {lines[i].h : i \in 1..Len(lines)}
                     dirs == {lines[i].h : i \in {j \in 1..Len(lines) : lines[j].t = "D"}}
                 IN traverseReachable(d, SetToSeq(dirs) \o Tail(todo),
                                      reachable \cup kids, visitedDirs \cup {hash},
                                      Append(opened, hash))

\* a variant that takes every blob of the store for reachable
GetReachableBlobsAll(b, d, hs) == [err |-> FALSE, reachable |-> GetAllBlobs(d)]

\* Backup.GetReachableBlobs
GetReachableBlobs(b, d, hs) ==
    LET roots == {RootHash(hs, key) : key \in AllBackupRoots(b, hs)}
    IN traverseReachable(d, SetToSeq(roots), roots, {}, <<>>)

\* Backup.FindUnreferenced
FindUnreferenced(b, d, hs) ==
    LET r == GetReachableBlobs(b, d, hs)
    IN [err |-> r.err,
        unreferenced |-> IF r.err THEN {} ELSE GetAllBlobs(d) \ r.reachable]

\* a variant that removes the files in a dry run too
PruneDataEager(b, d, hs, dryRun) ==
    Drop(d, {DataStore(hash) : hash \in FindUnreferenced(b, d, hs).unreferenced})

\* Backup.Prune: the files under data/ afterwards
PruneData(b, d, hs, dryRun) ==
    IF dryRun THEN d
    ELSE Drop(d, {DataStore(hash) : hash \in FindUnreferenced(b, d, hs).unreferenced})

RECURSIVE SumSizes(_, _)
SumSizes(d, hashes) ==
    IF hashes = {} THEN 0
    ELSE LET x == CHOOSE y \in hashes : TRUE
         IN FileSize(d[DataStore(x)]) + SumSizes(d, hashes \ {x})

\* ------------------------------------------------------ snapshot reader
\* BackupDirectory.Entries: the entries of the listing, or an error when the
\* blob cannot be opened or is not gzip
EntriesOk(d, hash) == Exists(d, DataStore(hash)) /\ d[DataStore(hash)].complete
Entries(d, hash) == {ListingLines(d, hash)[i] : i \in 1..Len(ListingLines(d, hash))}

\* BackupRoot.Locate: <<found, entry>> for the path inside the snapshot
RECURSIVE LocateFrom(_, _, _)
LocateFrom(d, cur, parts) ==
    IF parts = <<>> THEN [found |-> TRUE, t |-> cur.t, h |-> cur.h]
    ELSE IF cur.t # "D" \/ ~EntriesOk(d, cur.h)
         THEN [found |-> FALSE, t |-> "-", h |-> NoHash]
         ELSE LET hit == {e \in Entries(d, cur.h) : e.n = Head(parts)}
              IN IF hit = {} THEN [found |-> FALSE, t |-> "-", h |-> NoHash]
                 ELSE LocateFrom(d, CHOOSE e \in hit : TRUE, Tail(parts))
Locate(d, rootHash, fullName) == LocateFrom(d, [t |-> "D", h |-> rootHash], fullName)

\* BackupFile.Restore, BackupLink.Restore and BackupDirectory.Restore into
\* dest: what is created, and whether every step succeeded
RECURSIVE Restore(_, _, _, _)
Restore(d, t, hash, dest) ==
    IF t = "D"
    THEN IF ~EntriesOk(d, hash) THEN [ok |-> FALSE, made |-> {}]
         ELSE LET kids == {Restore(d, e.t, e.h, Join(dest, e.n)) : e \in Entries(d, hash)}
              IN [ok |-> \A r \in kids : r.ok,
                  made |-> {[p |-> dest, t |-> "D", c |-> NoBytes]}
                           \cup UNION {r.made : r \in kids}]
    ELSE IF ~EntriesOk(d, hash) THEN [ok |-> FALSE, made |-> {}]
         ELSE [ok |-> TRUE,
               made |-> {[p |-> dest, t |-> t, c |-> d[DataStore(hash)].bytes.raw]}]

\* Backup.Prune: the PruneStats it returns
PruneStats(b, d, hs, dryRun) ==
    LET unreferenced == FindUnreferenced(b, d, hs).unreferenced
    IN [BlobsRemoved |-> Cardinality(unreferenced),
        BytesRemoved |-> SumSizes(d, unreferenced)]

\* ---------------------------------------------------------------- check
\* what Verify carries along: the errors so far, verifiedBlobs, traversedDirs,
\* and the digests whose file traverseDirectory has opened, in that order
NoErrors == [errs |-> <<>>, verified |-> {}, traversed |-> {}, opened |-> <<>>]

\* an error of the list Verify returns: its kind and the digest (or head) named
VerifyError(kind, about) == [kind |-> kind, about |-> about]

\* a variant that accepts every file gzip can open
verifyBlobHashGzipOnly(f, expectedHash) == f.complete

\* verifyBlobHash: the file is a gzip stream and its content hashes to the digest
verifyBlobHash(f, expectedHash) == f.complete /\ MD5(f.bytes) = expectedHash

\* a variant that reports a digest again each time it meets it
verifyBlobAgain(d, hash, deep, st) ==
    IF ~Exists(d, DataStore(hash))
    THEN [st EXCEPT !.errs = Append(@, VerifyError("missing", hash))]
    ELSE IF FileSize(d[DataStore(hash)]) = 0
    THEN [st EXCEPT !.errs = Append(@, VerifyError("empty", hash))]
    ELSE st

\* Backup.verifyBlob
verifyBlob(d, hash, deep, st) ==
    IF hash \in st.verified THEN st
    ELSE LET seen == [st EXCEPT !.verified = @ \cup {hash}]
         IN IF ~Exists(d, DataStore(hash))
            THEN [seen EXCEPT !.errs = Append(@, VerifyError("missing", hash))]
            ELSE IF FileSize(d[DataStore(hash)]) = 0
            THEN [seen EXCEPT !.errs = Append(@, VerifyError("empty", hash))]
            ELSE IF deep /\ ~verifyBlobHash(d[DataStore(hash)], hash)
            THEN [seen EXCEPT !.errs = Append(@, VerifyError("corrupt", hash))]
            ELSE seen

\* Backup.traverseDirectory: [st, err], err being the error of os.Open; lines
\* is what is left of the listing being read, dirs the listings still open
RECURSIVE traverseDirectory(_, _, _, _)
RECURSIVE traverseLines(_, _, _, _)
traverseLines(d, lines, deep, st) ==
    IF lines = <<>> THEN st
    ELSE LET line == Head(lines)
             st1 == verifyBlob(d, line.h, deep, st)
             st2 == IF line.t = "D" THEN traverseDirectory(d, line.h, deep, st1).st
                    ELSE st1
         IN traverseLines(d, Tail(lines), deep, st2)

\* a variant that keeps no set of traversed directories, cut off when it has
\* read more files than the store holds
traverseDirectoryUnmarked(d, hash, deep, st) ==
    IF Len(st.opened) > Cardinality(DOMAIN d) THEN [st |-> st, err |-> FALSE]
    ELSE IF ~Exists(d, DataStore(hash))
    THEN [st |-> st, err |-> TRUE]
    ELSE LET st2 == [st EXCEPT !.opened = Append(@, hash)]
         IN IF ~d[DataStore(hash)].complete
            THEN [st |-> [st2 EXCEPT !.errs = Append(@, VerifyError("dirread", hash))],
                  err |-> FALSE]
            ELSE [st |-> traverseLines(d, ListingLines(d, hash), deep, st2),
                  err |-> FALSE]

traverseDirectory(d, hash, deep, st) ==
    IF hash \in st.traversed THEN [st |-> st, err |-> FALSE]
    ELSE LET st1 == [st EXCEPT !.traversed = @ \cup {hash}]
         IN IF ~Exists(d, DataStore(hash))
            THEN [st |-> st1, err |-> TRUE]
            ELSE LET st2 == [st1 EXCEPT !.opened = Append(@, hash)]
                 IN IF ~d[DataStore(hash)].complete
                    THEN [st |-> [st2 EXCEPT !.errs = Append(@, VerifyError("dirread", hash))],
                          err |-> FALSE]
                    ELSE [st |-> traverseLines(d, ListingLines(d, hash), deep, st2),
                          err |-> FALSE]

\* Backup.verifyTree for the root of the head key
verifyTree(d, hs, key, deep, st) ==
    LET hash == RootHash(hs, key)
        r == traverseDirectory(d, hash, deep, verifyBlob(d, hash, deep, st))
    IN IF r.err THEN [r.st EXCEPT !.errs = Append(@, VerifyError("traversal", key))]
       ELSE r.st

\* os.ReadDir(searchDir) lists the project directories by name
DirLess(p, q) == p = "pa" /\ q = "pb"

\* sort.Sort(BackupRoots(roots)): by time, the projects in the order of ReadDir
RECURSIVE SortRoots(_)
SortRoots(keys) ==
    IF keys = {} THEN <<>>
    ELSE LET first == CHOOSE x \in keys : \A y \in keys \ {x} :
                         \/ x[2] < y[2]
                         \/ x[2] = y[2] /\ DirLess(x[1], y[1])
         IN <<first>> \o SortRoots(keys \ {first})

RECURSIVE verifyRoots(_, _, _, _, _)
verifyRoots(d, hs, roots, deep, st) ==
    IF roots = <<>> THEN st
    ELSE verifyRoots(d, hs, Tail(roots), deep, verifyTree(d, hs, Head(roots), deep, st))

\* a cache value that is no digest: the text has len characters, all of them
\* hexadecimal or not
HashText(len, hex) == [md5 |-> FilePayload(NoBytes), len |-> len, hex |-> hex]
\* len(hash), and whether every character is one of 0-9, a-f, A-F; the %x
\* rendering of an md5 sum has 32 hexadecimal characters
HashLen(v) == IF "len" \in DOMAIN v THEN v.len ELSE 32
HashIsHex(v) == IF "hex" \in DOMAIN v THEN v.hex ELSE TRUE

\* a variant that looks at the values only
HashCacheVerifyValues(hc) ==
    \A key \in DOMAIN hc : HashLen(hc[key]) = 32 /\ HashIsHex(hc[key])

\* HashCache.Verify: no entry has a value that is not 32 hex characters or a
\* key that does not parse
HashCacheVerify(hc) ==
    ~ \E key \in DOMAIN hc :
        \/ HashLen(hc[key]) # 32
        \/ ~HashIsHex(hc[key])
        \/ ~parseKeyPrefix(key).ok

\* Backup.Verify: the list of errors
Verify(b, d, hs, hc, deep) ==
    LET walked == verifyRoots(d, hs, SortRoots(BackupRoots(b, hs)), deep, NoErrors).errs
        u == FindUnreferenced(b, d, hs)
        unref == IF u.err THEN <<VerifyError("detect", NoHash)>>
                 ELSE [i \in 1..Cardinality(u.unreferenced) |->
                          VerifyError("unreferenced", SetToSeq(u.unreferenced)[i])]
        cache == IF HashCacheVerify(hc) THEN <<>> ELSE <<VerifyError("cache", NoHash)>>
    IN walked \o unref \o cache

\* ----------------------------------------------------------- invocations
ZeroStats == [FilesTotal |-> 0, FilesArchived |-> 0, DirsTotal |-> 0,
              DirsArchived |-> 0, BytesArchived |-> 0]

\* no invocation in progress
Idle == [k |-> "idle", ctx |-> "H", dry |-> FALSE, hc |-> EmptyFcn, dirty |-> FALSE,
         stats |-> ZeroStats, todo |-> <<>>, st |-> "begin",
         pat |-> [d \in DirPaths |-> <<>>], ents |-> [d \in DirPaths |-> <<>>],
         scanned |-> {}, ignored |-> {}, h |-> NoHash, rd |-> FilePayload(NoBytes),
         ts |-> 0, clean |-> TRUE, wrote |-> {}, data0 |-> EmptyFcn,
         heads0 |-> EmptyFcn]

\* nothing reported yet
NoOut == [k |-> "none", ctx |-> "H", ok |-> TRUE, dry |-> FALSE, stats |-> ZeroStats,
          root |-> NoHash, head |-> <<"", 0>>, wrote |-> {}, same |-> FALSE,
          consec |-> FALSE, prevRoot |-> NoHash, prevHead |-> <<"", 0>>,
          unchanged |-> FALSE,
          removed |-> {}, bytes |-> 0, path |-> TopDir, found |-> FALSE, res |-> {},
          deep |-> FALSE, errs |-> <<>>, count |-> 0,
          cls |-> EmptyFcn]

\* the source trees at the start
TreeA == [p \in Paths |->
            CASE p = <<"a">> -> FileNode(Hi, 0)
              [] p = <<"sub">> -> DirNode
              [] p = <<"sub", "c">> -> FileNode(Ho, 0)
              [] p = <<"l">> -> LinkNode(<< <<"a">> >>)
              [] OTHER -> Absent]
TreeB == [p \in Paths |-> IF p = <<"a">> THEN FileNode(Hi, 0) ELSE Absent]
TreeU == [p \in Paths |-> IF p = <<"a">> THEN FileNode(Ho, 0) ELSE Absent]

Init ==
    /\ src = [s \in Sources |-> CASE s = "A" -> TreeA [] s = "B" -> TreeB [] OTHER -> TreeU]
    /\ cacheFile = [s \in Sources |-> EmptyFcn]
    /\ data = EmptyFcn
    /\ heads = EmptyFcn
    /\ now = 0
    /\ op = Idle
    /\ out = NoOut
    /\ taken = EmptyFcn
    /\ nops = 0
    /\ nedits = 0
    /\ ncrashes = 0
    /\ nfailed = 0
    /\ ndamage = 0

\* runBackup up to top.Save(): NewBackup loads the hash cache, and
\* NewDirectoryEntry(b, b.Top, nil) loads the root's ignore files
BackupStart(ctx, dry) ==
    /\ op.k = "idle"
    /\ nops < MaxOps
    /\ HasTop(ctx)
    /\ op' = [Idle EXCEPT !.k = "backup", !.ctx = ctx, !.dry = dry,
                          !.hc = cacheFile[ctx],
                          !.pat[TopDir] = LoadIgnoreFiles(src[ctx], TopDir),
                          !.todo = <<[k |-> "dir", e |-> RootEntry]>>,
                          !.data0 = data, !.heads0 = heads]
    /\ nops' = nops + 1
    /\ UNCHANGED <<src, cacheFile, data, heads, now, out, taken, nedits, ncrashes, nfailed, ndamage>>

\* a variant that writes the directory's blob before its children's
SaveOrderSelfFirst(children, self) == <<self>> \o children

\* a variant that stores the directory's own blob and none of its children's
SaveOrderSelfOnly(children, self) == <<self>>

\* DirectoryEntry.Save: the Save of every child in e.entries comes first, the
\* directory's own blob after them
SaveOrder(children, self) == children \o <<self>>

\* DirectoryEntry.Save up to the loop over the children: count the directory,
\* scan it, and line up the children's Save calls before its own blob
SaveDir ==
    /\ op.k = "backup" /\ op.st = "begin"
    /\ op.todo # <<>> /\ Head(op.todo).k = "dir"
    /\ LET dir == Head(op.todo).e.p
           tree == src[op.ctx]
           kept == ScanKept(tree, op.pat, dir)
           files == {p \in kept : tree[p].t = "F"}
           entries == ScanEntries(op.hc, tree, op.pat, dir)
           hc2 == FileHashAll(op.hc, tree, files)
           subpat == [d \in DirPaths |->
                        IF d \in kept /\ tree[d].t = "D" THEN LoadIgnoreFiles(tree, d)
                        ELSE op.pat[d]]
           tasks == [i \in 1..Len(entries) |->
                        [k |-> IF entries[i].t = "D" THEN "dir" ELSE "leaf", e |-> entries[i]]]
       IN op' = [op EXCEPT !.stats.DirsTotal = @ + 1,
                           !.hc = hc2,
                           !.dirty = @ \/ (DOMAIN hc2 # DOMAIN op.hc),
                           !.pat = subpat,
                           !.ents[dir] = entries,
                           !.scanned = @ \cup {dir},
                           !.ignored = @ \cup ScanIgnored(tree, op.pat, dir),
                           !.todo = SaveOrder(tasks, [k |-> "putdir", e |-> Head(op.todo).e])
                                    \o Tail(op.todo)]
    /\ UNCHANGED <<src, cacheFile, data, heads, now, out, taken, nops, nedits, ncrashes, nfailed, ndamage>>

\* a variant in which Save does not look at the dry-run flag
DryRunIgnored(o) == FALSE

\* e.b.DryRun as FileEntry.Save, LinkEntry.Save and DirectoryEntry.Save read it
DryRun(o) == o.dry

\* a variant that reports success
FailedQuietly(ctx) == [NoOut EXCEPT !.k = "backup", !.ctx = ctx, !.ok = TRUE]

\* "backup failed": runBackup returns the error of top.Save()
Failed(ctx) == [NoOut EXCEPT !.k = "backup", !.ctx = ctx, !.ok = FALSE]

\* FileEntry.Save and LinkEntry.Save up to os.Create(tempDest)
SaveLeaf ==
    /\ op.k = "backup" /\ op.st = "begin"
    /\ op.todo # <<>> /\ Head(op.todo).k = "leaf"
    /\ LET e == Head(op.todo).e
           dest == DataStore(e.h)
           node == src[op.ctx][e.p]
           counted == [op EXCEPT !.stats.FilesTotal = @ + 1]
           arch == [counted EXCEPT
                      !.stats.FilesArchived = @ + 1,
                      !.stats.BytesArchived =
                          @ + (IF e.t = "F" /\ node.t = "F" THEN Size(node.c) ELSE 0)]
       IN IF Exists(data, dest)
          THEN op' = [counted EXCEPT !.todo = Tail(@)] /\ UNCHANGED <<data, out, nfailed>>
          ELSE IF DryRun(op)
          THEN op' = [arch EXCEPT !.todo = Tail(@)] /\ UNCHANGED <<data, out, nfailed>>
          ELSE IF e.t = "F" /\ node.t # "F"
          THEN /\ op' = Idle /\ out' = Failed(op.ctx) /\ nfailed' = nfailed + 1
               /\ UNCHANGED data
          ELSE /\ op' = [arch EXCEPT !.st = "copy", !.h = e.h,
                                     !.rd = FilePayload(IF e.t = "F" THEN node.c ELSE e.tgt)]
               /\ data' = CreateFile(data, TempDest(dest))
               /\ UNCHANGED <<out, nfailed>>
    /\ UNCHANGED <<src, cacheFile, heads, now, taken, nops, nedits, ncrashes, ndamage>>

\* DirectoryEntry.Save after the children: hash the listing and, unless the
\* blob is there, count it and create tempDest
PutDir ==
    /\ op.k = "backup" /\ op.st = "begin"
    /\ op.todo # <<>> /\ Head(op.todo).k = "putdir"
    /\ LET dir == Head(op.todo).e.p
           h == DirHash(op.ents, dir)
           dest == DataStore(h)
           arch == [op EXCEPT !.stats.DirsArchived = @ + 1]
       IN IF Exists(data, dest)
          THEN op' = [op EXCEPT !.todo = Tail(@)] /\ UNCHANGED data
          ELSE IF DryRun(op)
          THEN op' = [arch EXCEPT !.todo = Tail(@)] /\ UNCHANGED data
          ELSE /\ op' = [arch EXCEPT !.st = "copy", !.h = h,
                                     !.rd = DirPayload(ContentAsText(op.ents, dir))]
               /\ data' = CreateFile(data, TempDest(dest))
    /\ UNCHANGED <<src, cacheFile, heads, now, out, taken, nops, nedits, ncrashes, nfailed, ndamage>>

\* io.Copy(gw, orig) / gw.Write / io.WriteString, then gw.Close()
PutCopy ==
    /\ op.k = "backup" /\ op.st = "copy"
    /\ data' = WriteGzip(data, TempDest(DataStore(op.h)), op.rd)
    /\ op' = [op EXCEPT !.st = "rename"]
    /\ UNCHANGED <<src, cacheFile, heads, now, out, taken, nops, nedits, ncrashes, nfailed, ndamage>>

\* return os.Rename(tempDest, dest)
PutRename ==
    /\ op.k = "backup" /\ op.st = "rename"
    /\ data' = Rename(data, TempDest(DataStore(op.h)), DataStore(op.h))
    /\ op' = [op EXCEPT !.st = "begin", !.todo = Tail(@), !.wrote = @ \cup {op.h}]
    /\ UNCHANGED <<src, cacheFile, heads, now, out, taken, nops, nedits, ncrashes, nfailed, ndamage>>

\* runBackup: the timestamp of the second is taken; sleep and retry
HeadWait ==
    /\ op.k = "backup" /\ op.st = "begin" /\ op.todo = <<>> /\ ~op.dry
    /\ HeadTaken(heads, <<HeadDir(op.ctx), now>>)
    /\ now' = now + 1
    /\ UNCHANGED <<src, cacheFile, data, heads, op, out, taken, nops, nedits, ncrashes, nfailed, ndamage>>

\* os.WriteFile(headFile, ...) opens the file, creating it empty
HeadCreate ==
    /\ op.k = "backup" /\ op.st = "begin" /\ op.todo = <<>> /\ ~op.dry
    /\ ~HeadTaken(heads, <<HeadDir(op.ctx), now>>)
    /\ heads' = Put(heads, <<HeadDir(op.ctx), now>>, <<>>)
    /\ op' = [op EXCEPT !.st = "head", !.ts = now]
    /\ UNCHANGED <<src, cacheFile, data, now, out, taken, nops, nedits, ncrashes, nfailed, ndamage>>

\* os.WriteFile(headFile, h + "\n") writes the content
HeadWrite ==
    /\ op.k = "backup" /\ op.st = "head"
    /\ heads' = Put(heads, <<HeadDir(op.ctx), op.ts>>, <<DirHash(op.ents, TopDir)>>)
    /\ taken' = Put(taken, <<HeadDir(op.ctx), op.ts>>,
                    [tree |-> src[op.ctx], clean |-> op.clean])
    /\ op' = [op EXCEPT !.st = "cache"]
    /\ UNCHANGED <<src, cacheFile, data, now, out, nops, nedits, ncrashes, nfailed, ndamage>>

\* the summary runBackup prints
Summary(o, prev, key, d) ==
    [NoOut EXCEPT !.k = "backup", !.ctx = o.ctx, !.ok = TRUE, !.dry = o.dry,
                  !.stats = o.stats, !.root = DirHash(o.ents, TopDir), !.head = key,
                  !.wrote = o.wrote, !.same = o.clean,
                  !.consec = /\ prev.k = "backup" /\ prev.ok /\ ~prev.dry /\ ~o.dry
                             /\ prev.ctx = o.ctx /\ prev.same /\ o.clean,
                  !.prevRoot = prev.root, !.prevHead = prev.head,
                  !.unchanged = (d = o.data0)]

\* runBackup after the head: HashCache.Prune, MaybeSaveCache, the summary
Finish ==
    /\ op.k = "backup" /\ op.st = "cache"
    /\ LET pruned == HashCachePrune(op.hc, src[op.ctx])
           dirty == op.dirty \/ DOMAIN pruned # DOMAIN op.hc
       IN cacheFile' = IF dirty THEN [cacheFile EXCEPT ![op.ctx] = pruned] ELSE cacheFile
    /\ out' = Summary(op, out, <<HeadDir(op.ctx), op.ts>>, data)
    /\ op' = Idle
    /\ UNCHANGED <<src, data, heads, now, taken, nops, nedits, ncrashes, nfailed, ndamage>>

\* runBackup in dry-run mode after top.Save(): only the summary
DryFinish ==
    /\ op.k = "backup" /\ op.st = "begin" /\ op.todo = <<>> /\ op.dry
    /\ out' = Summary(op, out, <<"", 0>>, data)
    /\ op' = Idle
    /\ UNCHANGED <<src, cacheFile, data, heads, now, taken, nops, nedits, ncrashes, nfailed, ndamage>>

\* the process is killed between two steps
Abort ==
    /\ op.k = "backup"
    /\ ncrashes < MaxCrashes
    /\ op' = Idle
    /\ out' = [NoOut EXCEPT !.k = "killed"]
    /\ ncrashes' = ncrashes + 1
    /\ UNCHANGED <<src, cacheFile, data, heads, now, taken, nops, nedits, nfailed, ndamage>>

\* -------------------------------------------------------- the environment
EditablePaths(s) ==
    IF s = "A" THEN {<<".backupignore">>, <<"a">>, <<"l">>, <<"sub">>} ELSE {}
MTimes == {0, 1}
EditChoices(p) ==
    CASE KindOf(p) = "L" -> {LinkNode(c) : c \in LinkTargets} \cup {Absent}
      [] KindOf(p) = "D" -> {DirNode, Absent}
      [] Base(p) = ".backupignore" ->
            {FileNode(c, 0) : c \in IgnoreTexts} \cup {Absent}
      [] OTHER -> {FileNode(c, mt) : c \in FileContents, mt \in MTimes} \cup {Absent}

IsBelow(q, p) == Len(q) > Len(p) /\ SubSeq(q, 1, Len(p)) = p

\* a user changes a source tree: writes or removes a file, a link or a directory
\* (a change commutes with the steps of a backup that do not read the tree, so
\* while a backup runs only the tree it reads is changed, between two reads)
Edit(s, p, node) ==
    /\ nedits < MaxEdits
    /\ op.k = "backup" => s = op.ctx /\ op.st = "begin"
    /\ p \in EditablePaths(s)
    /\ node \in EditChoices(p)
    /\ node # src[s][p]
    /\ IF DirOf(p) = TopDir THEN TRUE ELSE src[s][DirOf(p)].t = "D"
    /\ src' = [src EXCEPT ![s] = [q \in Paths |->
                  IF q = p THEN node
                  ELSE IF node.t = "-" /\ IsBelow(q, p) THEN Absent
                  ELSE src[s][q]]]
    /\ op' = IF op.k = "backup" /\ op.ctx = s THEN [op EXCEPT !.clean = FALSE] ELSE op
    /\ out' = IF out.k = "backup" /\ out.ctx = s THEN [out EXCEPT !.same = FALSE] ELSE out
    /\ nedits' = nedits + 1
    /\ UNCHANGED <<cacheFile, data, heads, now, taken, nops, ncrashes, nfailed, ndamage>>

\* ------------------------------------------------------ store operations
\* the prune command
Prune(ctx, dryRun) ==
    /\ op.k = "idle"
    /\ nops < MaxOps
    /\ LET u == FindUnreferenced(ctx, data, heads)
       IN /\ data' = IF u.err THEN data ELSE PruneData(ctx, data, heads, dryRun)
          /\ out' = [NoOut EXCEPT !.k = "prune", !.ok = ~u.err, !.dry = dryRun,
                                  !.removed = u.unreferenced,
                                  !.bytes = SumSizes(data, u.unreferenced)]
    /\ nops' = nops + 1
    /\ UNCHANGED <<src, cacheFile, heads, now, op, taken, nedits, ncrashes, nfailed, ndamage>>

Refs == [proj : {"", "pa", "pb"}, ts : 0..now]

\* a variant that removes every head of the snapshot's directory
RemoveHeadDir(hs, key) == Drop(hs, {other \in DOMAIN hs : other[1] = key[1]})

\* runRemove: os.Remove(root.BackupHead)
RemoveHead(hs, key) == Drop(hs, {key})

\* runRemove for one snapshot name
Remove(ctx, ref, dryRun) ==
    /\ op.k = "idle"
    /\ nops < MaxOps
    /\ LET found == FindBackupRoot(ctx, heads, ref)
           hs2 == IF found /\ ~dryRun THEN RemoveHead(heads, HeadPath(ctx, ref)) ELSE heads
           u == FindUnreferenced(ctx, data, hs2)
       IN /\ heads' = hs2
          /\ data' = IF dryRun \/ u.err THEN data ELSE PruneData(ctx, data, hs2, FALSE)
          /\ out' = [NoOut EXCEPT !.k = "remove", !.ok = dryRun \/ ~u.err, !.dry = dryRun,
                                  !.found = found,
                                  !.head = IF found THEN HeadPath(ctx, ref) ELSE <<"", 0>>,
                                  !.removed = IF dryRun THEN {} ELSE u.unreferenced]
    /\ nops' = nops + 1
    /\ UNCHANGED <<src, cacheFile, now, op, taken, nedits, ncrashes, nfailed, ndamage>>

\* the paths inside a snapshot that restore is asked for
RestorePaths == {TopDir, <<".backupignore">>, <<"a">>, <<"l">>, <<"sub">>, <<"sub", "c">>}

\* runRestore into an empty destination
RestoreCmd(ctx, ref, pathInside) ==
    /\ op.k = "idle"
    /\ FindBackupRoot(ctx, heads, ref)
    /\ LET key == HeadPath(ctx, ref)
           entry == Locate(data, RootHash(heads, key), pathInside)
           r == IF entry.found THEN Restore(data, entry.t, entry.h, pathInside)
                ELSE [ok |-> FALSE, made |-> {}]
       IN out' = [NoOut EXCEPT !.k = "restore", !.ok = r.ok, !.head = key,
                               !.path = pathInside, !.found = entry.found, !.res = r.made]
    /\ UNCHANGED <<src, cacheFile, data, heads, now, op, taken, nops, nedits, ncrashes, nfailed, ndamage>>

\* the hash cache NewBackup loaded: that of the source, none without one
LoadedCache(ctx) == IF HasTop(ctx) THEN cacheFile[ctx] ELSE EmptyFcn

\* the check command: the errors of Verify, and failure if there is one
Check(ctx, deep) ==
    /\ op.k = "idle"
    /\ nops < MaxOps
    /\ LET errs == Verify(ctx, data, heads, LoadedCache(ctx), deep)
       IN out' = [NoOut EXCEPT !.k = "check", !.ctx = ctx, !.deep = deep,
                               !.errs = errs, !.ok = (Len(errs) = 0)]
    /\ nops' = nops + 1
    /\ UNCHANGED <<src, cacheFile, data, heads, now, op, taken, nedits, ncrashes, nfailed, ndamage>>

Next ==
    \/ \E ctx \in Contexts, dry \in BOOLEAN : BackupStart(ctx, dry)
    \/ SaveDir
    \/ SaveLeaf
    \/ PutDir
    \/ PutCopy
    \/ PutRename
    \/ HeadWait
    \/ HeadCreate
    \/ HeadWrite
    \/ Finish
    \/ DryFinish
    \/ Abort
    \/ \E s \in Sources, p \in Paths : \E node \in EditChoices(p) : Edit(s, p, node)
    \/ \E ctx \in Contexts, dry \in BOOLEAN : Prune(ctx, dry)
    \/ \E ctx \in Contexts, ref \in Refs, dry \in BOOLEAN : Remove(ctx, ref, dry)
    \/ \E ctx \in {"A", "H"}, ref \in Refs, path \in RestorePaths :
          RestoreCmd(ctx, ref, path)
    \/ \E ctx \in Contexts, deep \in BOOLEAN : Check(ctx, deep)

Spec == Init /\ [][Next]_vars

\* ------------------------------------------ a store that holds a snapshot
\* the store and the cache file as a backup of source B into the empty store
\* leaves them (the state Spec is in when that backup has ended): the
\* invocations of a behaviour then start from a store with one snapshot
StockedEnts ==
    [d \in DirPaths |->
        IF d = TopDir
        THEN ScanEntries(EmptyFcn, TreeB,
                         [e \in DirPaths |-> LoadIgnoreFiles(TreeB, TopDir)], TopDir)
        ELSE <<>>]
StockedHead == <<HeadDir("B"), 0>>
StockedData ==
    LET leaf == FilePayload(TreeB[<<"a">>].c)
        listing == DirPayload(ContentAsText(StockedEnts, TopDir))
    IN WriteGzip(WriteGzip(EmptyFcn, DataStore(MD5(leaf)), leaf),
                 DataStore(DirHash(StockedEnts, TopDir)), listing)

InitStocked ==
    /\ src = [s \in Sources |-> CASE s = "A" -> TreeA [] s = "B" -> TreeB [] OTHER -> TreeU]
    /\ cacheFile = [s \in Sources |->
                       IF s = "B" THEN FileHashAll(EmptyFcn, TreeB, {<<"a">>}) ELSE EmptyFcn]
    /\ data = StockedData
    /\ heads = Put(EmptyFcn, StockedHead, <<DirHash(StockedEnts, TopDir)>>)
    /\ now = 0
    /\ op = Idle
    /\ out = NoOut
    /\ taken = Put(EmptyFcn, StockedHead, [tree |-> TreeB, clean |-> TRUE])
    /\ nops = 0
    /\ nedits = 0
    /\ ncrashes = 0
    /\ nfailed = 0
    /\ ndamage = 0

SpecStocked == InitStocked /\ [][Next]_vars

\* ------------------------------------------------ the scan of any tree
\* the source trees the scan is run on: source A with or without an entry
\* named .backup of each type at two depths, and with or without ignore files
\* of either name at the top and one below
GitIgnoreTexts == { << <<"a">> >>,
                    << <<"*">> >>,
                    << <<"!", "a">>, <<"sub", "/">> >> }
TopIgnoreTexts == { << <<"!", "a">> >>,
                    << <<"!", ".backup">> >>,
                    << <<"/", "sub", "/", "c">> >>,
                    << <<"a">>, <<"!", "*">> >> }
SubIgnoreTexts == { << <<"!", "c">> >>,
                    << <<"/", "c">> >>,
                    << <<"c", "/">> >>,
                    << <<"sub", "/", "c">> >> }
OrAbsent(nodes) == nodes \cup {Absent}

ScanTrees ==
    {[p \in Paths |->
        CASE p = <<".backup">> -> top
          [] p = <<"sub", ".backup">> -> deep
          [] p = <<".gitignore">> -> git
          [] p = <<".backupignore">> -> ign
          [] p = <<"sub", ".backupignore">> -> sub
          [] OTHER -> TreeA[p]] :
        top \in OrAbsent({DirNode, FileNode(Hi, 0), LinkNode(<< <<"a">> >>)}),
        deep \in OrAbsent({FileNode(Hi, 0), LinkNode(<< <<"a">> >>)}),
        git \in OrAbsent({FileNode(c, 0) : c \in GitIgnoreTexts}),
        ign \in OrAbsent({FileNode(c, 0) : c \in TopIgnoreTexts}),
        sub \in OrAbsent({FileNode(c, 0) : c \in SubIgnoreTexts})}

InitScan ==
    /\ src \in {[s \in Sources |-> CASE s = "A" -> tree [] s = "B" -> TreeB [] OTHER -> TreeU] :
                   tree \in ScanTrees}
    /\ cacheFile = [s \in Sources |-> EmptyFcn]
    /\ data = EmptyFcn
    /\ heads = EmptyFcn
    /\ now = 0
    /\ op = Idle
    /\ out = NoOut
    /\ taken = EmptyFcn
    /\ nops = 0
    /\ nedits = 0
    /\ ncrashes = 0
    /\ nfailed = 0
    /\ ndamage = 0

\* backups of source A, run to their end
NextScan ==
    \/ \E dry \in BOOLEAN : BackupStart("A", dry)
    \/ SaveDir \/ SaveLeaf \/ PutDir \/ PutCopy \/ PutRename
    \/ HeadWait \/ HeadCreate \/ HeadWrite \/ Finish \/ DryFinish

SpecScan == InitScan /\ [][NextScan]_vars

\* --------------------------------------------- a hash cache that is edited
\* runPruneCache: HashCache.Prune, and MaybeSaveCache when an entry was removed
\* and the run is no dry run; without a source directory the command fails
PruneCache(ctx, dryRun) ==
    /\ op.k = "idle"
    /\ nops < MaxOps
    /\ IF HasTop(ctx)
       THEN LET pruned == HashCachePrune(cacheFile[ctx], src[ctx])
                count == Cardinality(DOMAIN cacheFile[ctx] \ DOMAIN pruned)
            IN /\ cacheFile' = IF ~dryRun /\ count > 0
                               THEN [cacheFile EXCEPT ![ctx] = pruned] ELSE cacheFile
               /\ out' = [NoOut EXCEPT !.k = "prune-cache", !.ctx = ctx, !.dry = dryRun,
                                       !.count = count]
       ELSE /\ cacheFile' = cacheFile
            /\ out' = [NoOut EXCEPT !.k = "prune-cache", !.ctx = ctx, !.dry = dryRun,
                                    !.ok = FALSE]
    /\ nops' = nops + 1
    /\ UNCHANGED <<src, data, heads, now, op, taken, nedits, ncrashes, nfailed, ndamage>>

\* the lines a user may add to the file hash-cache of source A: a key without
\* a path, the key of file a as it is at the start, and one of another mtime;
\* a digest, a text that is too short, and 32 characters that are not all hex
CacheKeys == {[mt |-> 0, size |-> 0, rel |-> <<>>],
              [mt |-> 0, size |-> 2, rel |-> <<"a">>],
              [mt |-> 1, size |-> 2, rel |-> <<"a">>]}
CacheValues == {MD5(FilePayload(Hi)), HashText(11, FALSE), HashText(32, FALSE)}

\* a line is written to the hash-cache file between two invocations
EditCache(s, key, value) ==
    /\ op.k = "idle"
    /\ ndamage < MaxDamage
    /\ IF key \in DOMAIN cacheFile[s] THEN cacheFile[s][key] # value ELSE TRUE
    /\ cacheFile' = [cacheFile EXCEPT ![s] = Put(@, key, value)]
    /\ ndamage' = ndamage + 1
    /\ UNCHANGED <<src, data, heads, now, op, out, taken, nops, nedits, ncrashes, nfailed>>

\* backups of source A, edits of its tree and of its hash cache, prune-cache
\* and check
NextCache ==
    \/ BackupStart("A", FALSE)
    \/ SaveDir \/ SaveLeaf \/ PutDir \/ PutCopy \/ PutRename
    \/ HeadWait \/ HeadCreate \/ HeadWrite \/ Finish
    \/ \E p \in Paths : \E node \in EditChoices(p) : Edit("A", p, node)
    \/ \E ctx \in {"A", "H"}, dry \in BOOLEAN : PruneCache(ctx, dry)
    \/ \E key \in CacheKeys, value \in CacheValues : EditCache("A", key, value)
    \/ Check("A", FALSE)

SpecCache == Init /\ [][NextCache]_vars

\* ------------------------------------------------- a store that is damaged
\* what can become of a blob file behind the program's back: it is deleted,
\* emptied, overwritten with bytes that are no gzip stream, or replaced by the
\* gzip stream of other bytes
DamageKinds == {"delete", "empty", "garbage", "swap"}
OtherBytes(hash) == IF MD5(FilePayload(Hi)) = hash THEN FilePayload(Ho) ELSE FilePayload(Hi)

Damage(hash, kind) ==
    /\ op.k = "idle"
    /\ ndamage < MaxDamage
    /\ Exists(data, DataStore(hash))
    /\ data[DataStore(hash)].complete
    /\ data' = CASE kind = "delete" -> Drop(data, {DataStore(hash)})
                [] kind = "empty" -> CreateFile(data, DataStore(hash))
                [] kind = "garbage" ->
                      Put(data, DataStore(hash), [bytes |-> FilePayload(Hi), complete |-> FALSE])
                [] OTHER -> WriteGzip(data, DataStore(hash), OtherBytes(hash))
    /\ ndamage' = ndamage + 1
    /\ UNCHANGED <<src, cacheFile, heads, now, op, out, taken, nops, nedits, ncrashes, nfailed>>

\* the invocations run to their end, the source trees are left alone
NextDamaged ==
    \/ \E ctx \in Contexts, dry \in BOOLEAN : BackupStart(ctx, dry)
    \/ SaveDir \/ SaveLeaf \/ PutDir \/ PutCopy \/ PutRename
    \/ HeadWait \/ HeadCreate \/ HeadWrite \/ Finish \/ DryFinish
    \/ \E ctx \in Contexts, dry \in BOOLEAN : Prune(ctx, dry)
    \/ \E ctx \in Contexts, ref \in Refs, dry \in BOOLEAN : Remove(ctx, ref, dry)
    \/ \E ctx \in {"A", "H"}, ref \in Refs, path \in RestorePaths :
          RestoreCmd(ctx, ref, path)
    \/ \E ctx \in Contexts, deep \in BOOLEAN : Check(ctx, deep)
    \/ \E hash \in GetAllBlobs(data), kind \in DamageKinds : Damage(hash, kind)

SpecDamaged == Init /\ [][NextDamaged]_vars

\* -------------------------------------------------- a scan that fails
\* DirectoryEntry.scan when an entry os.ReadDir listed is removed before the
\* loop reaches it: f.Info(), os.Readlink or HashCache.FileHash (os.Stat)
\* fails, scan returns the error, Save returns it and runBackup fails
ScanFails ==
    /\ op.k = "backup" /\ op.st = "begin"
    /\ op.todo # <<>> /\ Head(op.todo).k = "dir"
    /\ nedits < MaxEdits
    /\ \E p \in ScanKept(src[op.ctx], op.pat, Head(op.todo).e.p) :
          /\ src[op.ctx][p].t \in {"F", "L"}
          /\ src' = [src EXCEPT ![op.ctx][p] = Absent]
    /\ op' = Idle
    /\ out' = Failed(op.ctx)
    /\ nfailed' = nfailed + 1
    /\ nedits' = nedits + 1
    /\ UNCHANGED <<cacheFile, data, heads, now, taken, nops, ncrashes, ndamage>>

\* backups of A and B while the tree of A is edited and entries vanish under
\* a scan
NextFail ==
    \/ \E ctx \in {"A", "B"}, dry \in BOOLEAN : BackupStart(ctx, dry)
    \/ SaveDir \/ SaveLeaf \/ PutDir \/ PutCopy \/ PutRename
    \/ HeadWait \/ HeadCreate \/ HeadWrite \/ Finish \/ DryFinish
    \/ \E p \in Paths : \E node \in EditChoices(p) : Edit("A", p, node)
    \/ ScanFails

SpecFail == Init /\ [][NextFail]_vars

\* ------------------------------------------------------------ status
\* BackupStatus.String
StatusArchived == "."
StatusArchivedContentMissing == "E"
StatusNew == "N"
StatusNewContentKnown == "n"

\* NewDirectoryEntry and scan for every directory of the tree: the patterns
\* loaded and the entries built
StatusPatterns(tree) == [d \in DirPaths |-> LoadIgnoreFiles(tree, d)]
StatusEntries(hc, tree) ==
    [d \in DirPaths |-> ScanEntries(hc, tree, StatusPatterns(tree), d)]

\* entry.Hash()
EntryHash(ents, e) == IF e.t = "D" THEN DirHash(ents, e.p) ELSE e.h

\* DirectoryEntry.AllFilesContentIsSaved
RECURSIVE AllFilesContentIsSaved(_, _, _)
AllFilesContentIsSaved(d, ents, dir) ==
    \A i \in 1..Len(ents[dir]) :
        /\ Exists(d, DataStore(EntryHash(ents, ents[dir][i])))
        /\ ents[dir][i].t = "D" => AllFilesContentIsSaved(d, ents, ents[dir][i].p)

\* a variant that never looks below a directory
ClassifyFlat(inLatest, contentExists, isDir, allSaved) ==
    IF inLatest
    THEN (IF contentExists THEN StatusArchived ELSE StatusArchivedContentMissing)
    ELSE (IF contentExists THEN StatusNewContentKnown ELSE StatusNew)

\* Backup.runStatus: the status of one entry
Classify(inLatest, contentExists, isDir, allSaved) ==
    IF inLatest
    THEN IF contentExists THEN StatusArchived
         ELSE IF isDir
              THEN (IF allSaved THEN StatusArchivedContentMissing ELSE StatusNewContentKnown)
              ELSE StatusArchivedContentMissing
    ELSE (IF contentExists THEN StatusNewContentKnown ELSE StatusNew)

\* no directory of the latest snapshot corresponds
NoBackupDir == [some |-> FALSE, h |-> NoHash]
NoReport == [err |-> FALSE, cls |-> EmptyFcn]
Merge(f, g) == [z \in DOMAIN f \cup DOMAIN g |-> IF z \in DOMAIN f THEN f[z] ELSE g[z]]

\* Backup.runStatus on the directory dir against backupDir: whether it failed,
\* and the status printed for each entry
RECURSIVE runStatus(_, _, _, _, _)
runStatus(d, ents, dir, backupDir, i) ==
    IF backupDir.some /\ ~EntriesOk(d, backupDir.h)
    THEN [err |-> TRUE, cls |-> EmptyFcn]
    ELSE IF i > Len(ents[dir]) THEN NoReport
    ELSE LET entry == ents[dir][i]
             backupEntries == IF backupDir.some THEN Entries(d, backupDir.h) ELSE {}
             named == {l \in backupEntries : l.n = entry.n}
             status == Classify(named # {},
                                Exists(d, DataStore(EntryHash(ents, entry))),
                                entry.t = "D",
                                IF entry.t = "D" THEN AllFilesContentIsSaved(d, ents, entry.p)
                                ELSE TRUE)
             subBackupDir == IF \E l \in named : l.t = "D"
                             THEN [some |-> TRUE, h |-> (CHOOSE l \in named : TRUE).h]
                             ELSE NoBackupDir
             below == IF entry.t = "D" THEN runStatus(d, ents, entry.p, subBackupDir, 1)
                      ELSE NoReport
             rest == IF below.err THEN NoReport ELSE runStatus(d, ents, dir, backupDir, i + 1)
         IN [err |-> below.err \/ rest.err,
             cls |-> Put(Merge(below.cls, rest.cls), entry.p, status)]

\* Backup.LatestBackupRoot: the last of BackupRoots by time, if there is one
LatestBackupRoot(b, hs) ==
    LET roots == BackupRoots(b, hs)
    IN IF roots = {} THEN NoBackupDir
       ELSE [some |-> TRUE,
             h |-> RootHash(hs, CHOOSE key \in roots : \A other \in roots : other[2] <= key[2])]

\* Backup.Status run from the top of a source directory; without a source
\* directory it lists the projects
Status(ctx) ==
    /\ op.k = "idle"
    /\ nops < MaxOps
    /\ LET r == IF HasTop(ctx)
                THEN runStatus(data, StatusEntries(LoadedCache(ctx), src[ctx]), TopDir,
                               LatestBackupRoot(ctx, heads), 1)
                ELSE NoReport
       IN out' = [NoOut EXCEPT !.k = "status", !.ctx = ctx, !.ok = ~r.err, !.cls = r.cls]
    /\ nops' = nops + 1
    /\ UNCHANGED <<src, cacheFile, data, heads, now, op, taken, nedits, ncrashes, nfailed, ndamage>>

\* the tree of source A as it was when its one snapshot was taken: since then
\* the contents of a and sub/c were swapped and the link l was made
TreeOld == [p \in Paths |->
              CASE p = <<"a">> -> FileNode(Ho, 1)
                [] p = <<"sub">> -> DirNode
                [] p = <<"sub", "c">> -> FileNode(Hi, 1)
                [] OTHER -> Absent]
OldEnts == [d \in DirPaths |->
              ScanEntries(EmptyFcn, TreeOld, [e \in DirPaths |-> <<>>], d)]
OldHead == <<HeadDir("A"), 0>>
OldData ==
    LET d1 == WriteGzip(EmptyFcn, DataStore(MD5(FilePayload(Ho))), FilePayload(Ho))
        d2 == WriteGzip(d1, DataStore(MD5(FilePayload(Hi))), FilePayload(Hi))
        d3 == WriteGzip(d2, DataStore(DirHash(OldEnts, <<"sub">>)),
                        DirPayload(ContentAsText(OldEnts, <<"sub">>)))
    IN WriteGzip(d3, DataStore(DirHash(OldEnts, TopDir)),
                 DirPayload(ContentAsText(OldEnts, TopDir)))

InitStatus ==
    /\ src = [s \in Sources |-> CASE s = "A" -> TreeA [] s = "B" -> TreeB [] OTHER -> TreeU]
    /\ cacheFile = [s \in Sources |->
                       IF s = "A"
                       THEN FileHashAll(EmptyFcn, TreeOld, {<<"a">>, <<"sub", "c">>})
                       ELSE EmptyFcn]
    /\ data = OldData
    /\ heads = Put(EmptyFcn, OldHead, <<DirHash(OldEnts, TopDir)>>)
    /\ now = 0
    /\ op = Idle
    /\ out = NoOut
    /\ taken = Put(EmptyFcn, OldHead, [tree |-> TreeOld, clean |-> TRUE])
    /\ nops = 0
    /\ nedits = 0
    /\ ncrashes = 0
    /\ nfailed = 0
    /\ ndamage = 0

\* backups of source A, edits of its tree, damage to blobs, and status
NextStatus ==
    \/ BackupStart("A", FALSE)
    \/ SaveDir \/ SaveLeaf \/ PutDir \/ PutCopy \/ PutRename
    \/ HeadWait \/ HeadCreate \/ HeadWrite \/ Finish
    \/ \E p \in Paths : \E node \in EditChoices(p) : Edit("A", p, node)
    \/ \E hash \in GetAllBlobs(data), kind \in {"delete", "garbage"} : Damage(hash, kind)
    \/ \E ctx \in {"A", "H"} : Status(ctx)

SpecStatus == InitStatus /\ [][NextStatus]_vars

\* ------------------------------------------- stray files under snapshots/
\* the files that may turn up in a project directory of snapshots/: a file
\* whose name is no timestamp, empty or holding a digest, and an empty file
\* with a timestamp for a name
StrayNames == {-1, 0, 1}
StrayContents(name) == IF ParsesAsTime(name) THEN {<<>>} ELSE {<<>>, <<NoHash>>}

StrayFile(dir, name, content) ==
    /\ op.k = "idle"
    /\ ndamage < MaxDamage
    /\ <<dir, name>> \notin DOMAIN heads
    /\ content \in StrayContents(name)
    /\ heads' = Put(heads, <<dir, name>>, content)
    /\ ndamage' = ndamage + 1
    /\ UNCHANGED <<src, cacheFile, data, now, op, out, taken, nops, nedits, ncrashes, nfailed>>

\* backups of A and B that may be killed, stray files, and the commands that
\* enumerate the snapshots
NextHeads ==
    \/ \E ctx \in {"A", "B"} : BackupStart(ctx, FALSE)
    \/ SaveDir \/ SaveLeaf \/ PutDir \/ PutCopy \/ PutRename
    \/ HeadWait \/ HeadCreate \/ HeadWrite \/ Finish
    \/ Abort
    \/ \E dir \in {"pa", "pb"}, name \in StrayNames : \E content \in StrayContents(name) :
          StrayFile(dir, name, content)
    \/ \E ctx \in {"A", "H"} : Check(ctx, FALSE)
    \/ \E ctx \in {"A", "H"} : Prune(ctx, FALSE)
    \/ Status("A")

SpecHeads == Init /\ [][NextHeads]_vars

\* ------------------------------------------- the cache file while it is saved
\* The steps of HashCache.MaybeSaveCache one by one, for the behaviours in
\* which the process is killed while it writes the cache file.
\* MaybeSaveCache sorts the entries by the path of their key, a string
\* comparison; HashCache.Prune has removed the keys that do not parse
PathCode(p) == [i \in 1..Len(Slashed(p)) |-> TokRank(Slashed(p)[i])]
SavePathLess(k1, k2) == SeqLess(PathCode(k1.rel), PathCode(k2.rel))

\* the entry MaybeSaveCache writes next: the first, in the sorted order, of
\* those of the cache that the file does not hold yet
NextLine(hc, file) ==
    CHOOSE key \in DOMAIN hc \ DOMAIN file :
        \A other \in DOMAIN hc \ DOMAIN file : ~SavePathLess(other, key)

\* runBackup after the head: HashCache.Prune, and MaybeSaveCache up to
\* os.Create(hc.file), which truncates the cache file
CacheCreate ==
    /\ op.k = "backup" /\ op.st = "cache"
    /\ LET pruned == HashCachePrune(op.hc, src[op.ctx])
       IN /\ op.dirty \/ DOMAIN pruned # DOMAIN op.hc
          /\ cacheFile' = [cacheFile EXCEPT ![op.ctx] = EmptyFcn]
          /\ op' = [op EXCEPT !.st = "save", !.hc = pruned]
    /\ UNCHANGED <<src, data, heads, now, out, taken, nops, nedits, ncrashes, nfailed, ndamage>>

\* MaybeSaveCache: fmt.Fprintf(file, "%s=%s\n", escapedKey, e.val) for the
\* next entry
CacheWrite ==
    /\ op.k = "backup" /\ op.st = "save"
    /\ DOMAIN op.hc # DOMAIN cacheFile[op.ctx]
    /\ LET key == NextLine(op.hc, cacheFile[op.ctx])
       IN cacheFile' = [cacheFile EXCEPT ![op.ctx] = Put(@, key, op.hc[key])]
    /\ UNCHANGED <<src, data, heads, now, op, out, taken, nops, nedits, ncrashes, nfailed, ndamage>>

\* runBackup after the cache file is saved, or when HashCache.Prune removed
\* nothing from a cache that is not dirty and MaybeSaveCache returns at once:
\* the summary
FinishSaved ==
    /\ op.k = "backup"
    /\ IF op.st = "cache"
       THEN ~op.dirty /\ DOMAIN HashCachePrune(op.hc, src[op.ctx]) = DOMAIN op.hc
       ELSE op.st = "save" /\ DOMAIN op.hc = DOMAIN cacheFile[op.ctx]
    /\ out' = Summary(op, out, <<HeadDir(op.ctx), op.ts>>, data)
    /\ op' = Idle
    /\ UNCHANGED <<src, cacheFile, data, heads, now, taken, nops, nedits, ncrashes, nfailed, ndamage>>

\* backups of A and B that can be killed between any two steps, the save of
\* the cache file included, and edits of A
NextSave ==
    \/ \E ctx \in {"A", "B"} : BackupStart(ctx, FALSE)
    \/ SaveDir \/ SaveLeaf \/ PutDir \/ PutCopy \/ PutRename
    \/ HeadWait \/ HeadCreate \/ HeadWrite
    \/ CacheCreate \/ CacheWrite \/ FinishSaved
    \/ Abort
    \/ \E p \in Paths : \E node \in EditChoices(p) : Edit("A", p, node)

SpecSave == Init /\ [][NextSave]_vars

\* --------------------------------------- a store with listings made by hand
\* a listing written from outside: one D line, or two, that name the digest
\* target
CraftedListing(target, twice) ==
    IF twice THEN <<[t |-> "D", h |-> target, n |-> "a"], [t |-> "D", h |-> target, n |-> "sub"]>>
    ELSE <<[t |-> "D", h |-> target, n |-> "sub"]>>

\* somebody replaces the file of a digest by the gzip stream of a listing that
\* names a digest of the store: its own, that of a listing above it, or another
Craft(hash, target, twice) ==
    /\ op.k = "idle"
    /\ ndamage < MaxDamage
    /\ Exists(data, DataStore(hash)) /\ Exists(data, DataStore(target))
    /\ data' = WriteGzip(data, DataStore(hash), DirPayload(CraftedListing(target, twice)))
    /\ ndamage' = ndamage + 1
    /\ UNCHANGED <<src, cacheFile, heads, now, op, out, taken, nops, nedits, ncrashes, nfailed>>

\* backups of A that run to their end, listings made by hand, check and prune
NextCyclic ==
    \/ BackupStart("A", FALSE)
    \/ SaveDir \/ SaveLeaf \/ PutDir \/ PutCopy \/ PutRename
    \/ HeadWait \/ HeadCreate \/ HeadWrite \/ Finish
    \/ \E hash \in GetAllBlobs(data), target \in GetAllBlobs(data), twice \in BOOLEAN :
          Craft(hash, target, twice)
    \/ \E ctx \in {"A", "H"}, deep \in BOOLEAN : Check(ctx, deep)
    \/ \E dry \in BOOLEAN : Prune("A", dry)

SpecCyclic == Init /\ [][NextCyclic]_vars

\* ------------------------------------------ a store that has lost blobs
\* backups of A that run to their end, blob files deleted between them from
\* outside (as a prune would, or by hand), and edits of the source
NextAbsent ==
    \/ BackupStart("A", FALSE)
    \/ SaveDir \/ SaveLeaf \/ PutDir \/ PutCopy \/ PutRename
    \/ HeadWait \/ HeadCreate \/ HeadWrite \/ Finish
    \/ \E p \in Paths : \E node \in EditChoices(p) : Edit("A", p, node)
    \/ \E hash \in GetAllBlobs(data) : Damage(hash, "delete")

SpecAbsent == Init /\ [][NextAbsent]_vars

\* ------------------------------------------------ the cache file as text
\* The text of the keys and of the cache file, character by character, for
\* relative paths made of a letter, a space, '=' and a backslash.
MaxPathLen == 3
MaxKeys == 2
PathChars == {"a", " ", "=", "\\"}
RECURSIVE TextsOfLen(_)
TextsOfLen(n) ==
    IF n = 0 THEN {<<>>}
    ELSE {Append(t, c) : t \in TextsOfLen(n - 1), c \in PathChars}
PathTexts == UNION {TextsOfLen(n) : n \in 1..MaxPathLen}
DigestTexts == {<<"H1">>, <<"H2">>}

\* HashCache.FileHash: fmt.Sprintf("%d %d %s", mtime_ms, size, relPath), for
\* a file of mtime 0 and size 0
KeyText(relPath) == <<"0", " ", "0", " ">> \o relPath

\* the byte order of the characters
CharRank(c) ==
    CASE c = " " -> 0 [] c = "0" -> 1 [] c = "=" -> 2 [] c = "\\" -> 3 [] c = "a" -> 4
      [] OTHER -> 5
TextCode(t) == [i \in 1..Len(t) |-> CharRank(t[i])]

\* parseKeyPrefix on the text of a key: the index at which the path starts,
\* 0 when the key has no two fields followed by a path
FirstSpace(t, from) ==
    IF \E i \in from..Len(t) : t[i] = " "
    THEN CHOOSE i \in from..Len(t) : t[i] = " " /\ \A j \in from..(i - 1) : t[j] # " "
    ELSE 0
parseKeyPrefixText(key) ==
    LET idx1 == FirstSpace(key, 1)
        idx2 == IF idx1 > 1 THEN FirstSpace(key, idx1 + 1) ELSE 0
    IN IF idx1 <= 1 \/ idx2 <= idx1 + 1 \/ idx2 >= Len(key) THEN 0 ELSE idx2 + 1

\* MaybeSaveCache: the path an entry is sorted by, k[idx:] or the whole key
SortPath(key) ==
    IF parseKeyPrefixText(key) = 0 THEN key
    ELSE SubSeq(key, parseKeyPrefixText(key), Len(key))

\* MaybeSaveCache: every space of the key becomes a backslash and a space
EscapeKey(key) ==
    Flatten([i \in 1..Len(key) |-> IF key[i] = " " THEN <<"\\", " ">> ELSE <<key[i]>>])

\* MaybeSaveCache: the lines written, the comment line first, then
\* "<escaped key>=<value>" for the entries sorted by path
RECURSIVE SortedKeys(_)
SortedKeys(keys) ==
    IF keys = {} THEN <<>>
    ELSE LET k == CHOOSE x \in keys :
                     \A y \in keys : ~SeqLess(TextCode(SortPath(y)), TextCode(SortPath(x)))
         IN <<k>> \o SortedKeys(keys \ {k})
MaybeSaveCache(cache) ==
    <<(<<"#">>)>> \o [i \in 1..Cardinality(DOMAIN cache) |->
                        EscapeKey(SortedKeys(DOMAIN cache)[i]) \o <<"=">>
                        \o cache[SortedKeys(DOMAIN cache)[i]]]

\* strings.TrimSpace
RECURSIVE TrimLeft(_)
TrimLeft(t) == IF t # <<>> /\ Head(t) = " " THEN TrimLeft(Tail(t)) ELSE t
RECURSIVE TrimRight(_)
TrimRight(t) ==
    IF t # <<>> /\ t[Len(t)] = " " THEN TrimRight(SubSeq(t, 1, Len(t) - 1)) ELSE t
TrimSpace(t) == TrimLeft(TrimRight(t))

\* strings.ReplaceAll(key, "\\ ", " ")
RECURSIVE Unescape(_)
Unescape(t) ==
    IF t = <<>> THEN <<>>
    ELSE IF Len(t) >= 2 /\ t[1] = "\\" /\ t[2] = " "
    THEN <<" ">> \o Unescape(SubSeq(t, 3, Len(t)))
    ELSE <<Head(t)>> \o Unescape(Tail(t))

\* LoadProperties, one line: comment lines and lines without '=' are skipped;
\* strings.SplitN(line, "=", 2) splits at the first '='
LoadLine(props, line) ==
    IF line # <<>> /\ Head(line) \in {"#", "!"} THEN props
    ELSE IF ~\E i \in 1..Len(line) : line[i] = "=" THEN props
    ELSE LET eq == CHOOSE i \in 1..Len(line) :
                      line[i] = "=" /\ \A j \in 1..(i - 1) : line[j] # "="
         IN Put(props, Unescape(TrimSpace(SubSeq(line, 1, eq - 1))),
                TrimSpace(SubSeq(line, eq + 1, Len(line))))

\* LoadProperties: the map read from the lines of the file
RECURSIVE LoadProperties(_, _)
LoadProperties(props, lines) ==
    IF lines = <<>> THEN props
    ELSE LoadProperties(LoadLine(props, Head(lines)), Tail(lines))

\* HashCache.FileHash adds the entry of a file it has no entry for
FileHashText(relPath, digest) ==
    /\ op.k = "props" /\ op.st = "begin"
    /\ Cardinality(DOMAIN op.hc) < MaxKeys
    /\ KeyText(relPath) \notin DOMAIN op.hc
    /\ op' = [op EXCEPT !.hc = Put(@, KeyText(relPath), digest), !.dirty = TRUE]
    /\ UNCHANGED <<src, cacheFile, data, heads, now, out, taken, nops, nedits, ncrashes, nfailed, ndamage>>

\* MaybeSaveCache writes the cache file of source A
SaveText ==
    /\ op.k = "props" /\ op.st = "begin" /\ op.dirty
    /\ cacheFile' = [cacheFile EXCEPT !["A"] = MaybeSaveCache(op.hc)]
    /\ op' = [op EXCEPT !.st = "saved"]
    /\ UNCHANGED <<src, data, heads, now, out, taken, nops, nedits, ncrashes, nfailed, ndamage>>

\* NewHashCache in the next invocation: the cache is what LoadProperties
\* reads from the file
LoadText ==
    /\ op.k = "props" /\ op.st = "saved"
    /\ op' = [op EXCEPT !.st = "loaded", !.hc = LoadProperties(EmptyFcn, cacheFile["A"]),
                        !.dirty = FALSE]
    /\ UNCHANGED <<src, cacheFile, data, heads, now, out, taken, nops, nedits, ncrashes, nfailed, ndamage>>

InitText ==
    /\ src = [s \in Sources |-> CASE s = "A" -> TreeA [] s = "B" -> TreeB [] OTHER -> TreeU]
    /\ cacheFile = [s \in Sources |-> EmptyFcn]
    /\ data = EmptyFcn
    /\ heads = EmptyFcn
    /\ now = 0
    /\ op = [Idle EXCEPT !.k = "props"]
    /\ out = NoOut
    /\ taken = EmptyFcn
    /\ nops = 0
    /\ nedits = 0
    /\ ncrashes = 0
    /\ nfailed = 0
    /\ ndamage = 0

NextText ==
    \/ \E relPath \in PathTexts, digest \in DigestTexts : FileHashText(relPath, digest)
    \/ SaveText
    \/ LoadText

SpecText == InitText /\ [][NextText]_vars

\* ------------------------------------- a directory that cannot be listed
\* DirectoryEntry.Save when os.ReadDir(e.path) fails on a directory that has
\* entries (its mode forbids reading): scan returns nil with no content, so
\* Content() is empty, no child is saved, and Hash() scans again and hashes
\* the empty listing
ScanUnlisted ==
    /\ op.k = "backup" /\ op.st = "begin"
    /\ op.todo # <<>> /\ Head(op.todo).k = "dir"
    /\ LET dir == Head(op.todo).e.p
       IN /\ ReadDir(src[op.ctx], dir) # {}
          /\ op' = [op EXCEPT !.stats.DirsTotal = @ + 1,
                              !.ents[dir] = <<>>,
                              !.scanned = @ \cup {dir},
                              !.todo = SaveOrder(<<>>, [k |-> "putdir", e |-> Head(op.todo).e])
                                       \o Tail(op.todo)]
    /\ UNCHANGED <<src, cacheFile, data, heads, now, out, taken, nops, nedits, ncrashes, nfailed, ndamage>>

\* backups of A while its tree is edited and directories refuse to be listed
NextUnlisted ==
    \/ \E dry \in BOOLEAN : BackupStart("A", dry)
    \/ SaveDir \/ SaveLeaf \/ PutDir \/ PutCopy \/ PutRename
    \/ HeadWait \/ HeadCreate \/ HeadWrite \/ Finish \/ DryFinish
    \/ \E p \in Paths : \E node \in EditChoices(p) : Edit("A", p, node)
    \/ ScanUnlisted

SpecUnlisted == Init /\ [][NextUnlisted]_vars

\* ================================================================ properties
\* every head file that names a root, in a project directory or directly
\* under snapshots/
HeadsPresent(hs) == {key \in DOMAIN hs : Len(hs[key]) > 0}

\* the digests in the transitive closure of the heads of the set keys
Closure(d, hs, keys) ==
    LET roots == {hs[key][1] : key \in keys}
    IN traverseReachable(d, SetToSeq(roots), roots, {}, <<>>).reachable

\* a step that completes a prune that deletes: the prune command, or remove
PruneCompletes ==
    /\ nops' = nops + 1
    /\ out'.k \in {"prune", "remove"}
    /\ ~out'.dry

\* C1: once a prune with dry_run=false completes, from any context, every blob
\* in the closure of every head still in the store (heads directly under
\* snapshots/ included) that was under data/ is still there, and what prune
\* deleted are blob files (never a .partial) outside that closure.
C1_PruneKeepsReachable ==
    [][PruneCompletes =>
         /\ \A h \in Closure(data, heads', HeadsPresent(heads')) \cap GetAllBlobs(data) :
               h \in GetAllBlobs(data')
         /\ \A path \in DOMAIN data \ DOMAIN data' :
               /\ ~path.partial
               /\ path.hash \notin Closure(data, heads', HeadsPresent(heads'))]_vars

\* C2: every file <digest>.gz under data/ holds bytes whose hash is <digest>.
C2_DigestFidelity ==
    \A path \in DOMAIN data :
        ~path.partial => MD5(data[path].bytes) = path.hash

\* C3: at every step, interruptions included, a final path <digest>.gz holds a
\* complete payload; a final path that exists is never written to, and a final
\* path appears only as the rename of its complete .partial file.
C3_NoPartialAtFinalPath ==
    [][/\ \A path \in DOMAIN data' : ~path.partial => data'[path].complete
       /\ \A path \in DOMAIN data' \cap DOMAIN data :
             ~path.partial => data'[path] = data[path]
       /\ \A path \in DOMAIN data' \ DOMAIN data :
             ~path.partial =>
                LET tmp == [path EXCEPT !.partial = TRUE]
                IN /\ tmp \in DOMAIN data
                   /\ tmp \notin DOMAIN data'
                   /\ data[tmp].complete
                   /\ data'[path] = data[tmp]]_vars

\* a run was killed between two steps of a put: a .partial file without its
\* payload is left beside blobs at their final paths
C3_Witness ==
    /\ out.k = "killed"
    /\ \E path \in DOMAIN data : path.partial /\ ~data[path].complete
    /\ \E path \in DOMAIN data : ~path.partial

\* C4: when a non-dry-run backup follows a non-dry-run backup of the same
\* project and the source did not change, both heads hold the same root
\* digest, the second run archived nothing (FilesArchived, DirsArchived and
\* BytesArchived are 0) and the files under data/ are those it started with.
C4_IdempotentBackup ==
    (out.k = "backup" /\ out.consec) =>
        /\ out.root = out.prevRoot
        /\ out.head # out.prevHead
        /\ out.head \in DOMAIN heads /\ heads[out.head] = <<out.root>>
        /\ out.prevHead \in DOMAIN heads /\ heads[out.prevHead] = <<out.prevRoot>>
        /\ out.stats.FilesArchived = 0
        /\ out.stats.DirsArchived = 0
        /\ out.stats.BytesArchived = 0
        /\ out.wrote = {}
        /\ out.unchanged

\* the second of two consecutive backups of an unchanged tree has finished
C4_Witness ==
    /\ out.k = "backup" /\ out.consec
    /\ out.stats.FilesTotal > 0 /\ out.stats.DirsTotal > 0

\* the heads whose run nothing changed the tree during, so that the tree
\* recorded for the head is the tree the run read
CleanHeads == {key \in DOMAIN taken : taken[key].clean /\ key \in HeadsPresent(heads)}

\* a put about to find its final path in the store
PutOnExisting ==
    /\ op.k = "backup" /\ op.st = "begin" /\ op.todo # <<>>
    /\ Head(op.todo).k \in {"leaf", "putdir"}
    /\ LET e == Head(op.todo).e
           h == IF e.t = "D" THEN DirHash(op.ents, e.p) ELSE e.h
       IN [hash |-> h, partial |-> FALSE] \in DOMAIN data

\* C5: two source files with the same content, in one snapshot or in the
\* snapshots of two projects, are listed under the same digest and the store
\* holds exactly one blob file with that content; and a put that finds its
\* final path leaves the files under data/ as they are and adds nothing to
\* the archived counters.
C5_Dedup ==
    /\ [](\A k1 \in CleanHeads, k2 \in CleanHeads : \A p \in Paths, q \in Paths :
            LET n1 == taken[k1].tree[p]
                n2 == taken[k2].tree[q]
                e1 == Locate(data, heads[k1][1], p)
                e2 == Locate(data, heads[k2][1], q)
            IN (n1.t = "F" /\ n2.t = "F" /\ n1.c = n2.c /\ e1.found /\ e2.found) =>
                  /\ e1.h = e2.h
                  /\ Cardinality({path \in DOMAIN data :
                        ~path.partial /\ data[path].bytes = FilePayload(n1.c)}) = 1)
    /\ [][(PutOnExisting /\ op'.k = "backup") =>
            /\ data' = data
            /\ op'.stats.FilesArchived = op.stats.FilesArchived
            /\ op'.stats.DirsArchived = op.stats.DirsArchived
            /\ op'.stats.BytesArchived = op.stats.BytesArchived]_vars

IsAtOrBelow(q, p) == Len(q) >= Len(p) /\ SubSeq(q, 1, Len(p)) = p

\* C6: restoring a located path of a head into an empty destination succeeds
\* and creates, for a file, the bytes the source file had when the backup was
\* taken, for a link, a link to the original target, and for a directory,
\* exactly the entries of the snapshot below it; also after other heads were
\* removed and prune has run.
C6_RestoreRoundTrip ==
    (op.k = "idle" /\ out.k = "restore" /\ out.found /\ out.head \in CleanHeads) =>
        LET tree == taken[out.head].tree
            root == heads[out.head][1]
        IN /\ out.ok
           /\ {m.p : m \in out.res} =
                 {q \in Paths \cup {TopDir} :
                     IsAtOrBelow(q, out.path) /\ Locate(data, root, q).found}
           /\ \A m \in out.res :
                 IF m.p = TopDir THEN m.t = "D"
                 ELSE /\ m.t = tree[m.p].t
                      /\ m.t # "D" => m.c = tree[m.p].c

\* the listing entries of a running backup and its pending Save calls hold no
\* path the chain of its directory ignores
NothingIgnoredListed(o) ==
    /\ \A dir \in o.scanned : \A i \in 1..Len(o.ents[dir]) :
          ~Match(Chain(o.pat, dir), o.ents[dir][i].p, o.ents[dir][i].t = "D")
    /\ \A i \in 1..Len(o.todo) :
          o.todo[i].e.p # TopDir =>
             ~Match(Chain(o.pat, DirOf(o.todo[i].e.p)), o.todo[i].e.p, o.todo[i].e.t = "D")

\* C7: no listing of a backup holds an entry for a file, link or directory
\* that the ignore chain active at its path ignores; the scan of a directory
\* records every such child as ignored, and no Save is lined up for it.
C7_IgnoreRespect ==
    [][op'.k = "backup" =>
         /\ NothingIgnoredListed(op')
         /\ \A dir \in op'.scanned \ op.scanned :
               \A p \in ReadDir(src[op.ctx], dir) :
                  Match(Chain(op.pat, dir), p, src[op.ctx][p].t = "D") =>
                     /\ p \in op'.ignored
                     /\ \A i \in 1..Len(op'.ents[dir]) : op'.ents[dir][i].p # p
                     /\ \A i \in 1..Len(op'.todo) : op'.todo[i].e.p # p
         /\ \A path \in DOMAIN data' \ DOMAIN data :
               (~path.partial /\ data'[path].bytes.ents # <<>>) =>
                  \E dir \in op'.scanned :
                     data'[path].bytes.ents = ContentAsText(op'.ents, dir)]_vars

\* a backup that ignored a child has written the listing of its top directory
C7_Witness ==
    /\ op.k = "backup" /\ ~op.dry
    /\ op.ignored # {}
    /\ DirHash(op.ents, TopDir) \in op.wrote

\* C8: deleting a head never adds to the reachable digests, and with no head
\* left nothing is reachable and every blob of the store is unreferenced.
C8_ReachabilityMonotone ==
    \A ctx \in Contexts :
        /\ \A key \in DOMAIN heads :
              GetReachableBlobs(ctx, data, Drop(heads, {key})).reachable
                 \subseteq GetReachableBlobs(ctx, data, heads).reachable
        /\ GetReachableBlobs(ctx, data, EmptyFcn).reachable = {}
        /\ FindUnreferenced(ctx, data, EmptyFcn).unreferenced =
              {path.hash : path \in {q \in DOMAIN data : ~q.partial}}

\* two heads with different roots, one of which reaches a blob the other does
\* not, so that deleting it shrinks the reachable set
C8_Witness ==
    \E key \in DOMAIN heads :
        /\ Len(heads[key]) > 0 /\ key[1] # ""
        /\ GetReachableBlobs("H", data, Drop(heads, {key})).reachable # {}
        /\ GetReachableBlobs("H", data, Drop(heads, {key})).reachable
              # GetReachableBlobs("H", data, heads).reachable

\* the heads in the project directories under snapshots/
ProjectHeads(hs) == {key \in HeadsPresent(hs) : key[1] # ""}

\* C9: from every context (a project's source, another project's source, a
\* source without project name, the store itself) unreferenced() is the same
\* set: the blobs of the store minus the closures of the heads of all
\* projects, so a blob reachable from another project's head is never
\* reported.
C9_UnreferencedAllProjects ==
    \A ctx \in Contexts :
        /\ ~FindUnreferenced(ctx, data, heads).err
        /\ FindUnreferenced(ctx, data, heads).unreferenced =
              {path.hash : path \in {q \in DOMAIN data : ~q.partial}}
                 \ Closure(data, heads, ProjectHeads(heads))

\* heads of two projects, the second reaching a blob the first does not
C9_Witness ==
    \E ka \in ProjectHeads(heads), kb \in ProjectHeads(heads) :
        /\ ka[1] = "pa" /\ kb[1] = "pb"
        /\ Closure(data, heads, {kb}) \ Closure(data, heads, {ka}) # {}
        /\ FindUnreferenced("A", data, heads).unreferenced # GetAllBlobs(data)

\* the blobs a listing names are all at their final paths
ChildrenPresent(d, lines) ==
    \A i \in 1..Len(lines) : [hash |-> lines[i].h, partial |-> FALSE] \in DOMAIN d

\* every head that names a root has the root's blob
RootsPresent(d, hs) ==
    \A key \in HeadsPresent(hs) : [hash |-> hs[key][1], partial |-> FALSE] \in DOMAIN d

\* C10: a directory blob reaches its final path only when the blobs of all
\* its children are at theirs, and a head is written only when the root
\* blob is at its final path; so no step of a backup, a kill included, leaves
\* a head without its root blob or a directory blob written by the run
\* without a child's blob.
C10_WriteOrder ==
    [][/\ \A path \in DOMAIN data' \ DOMAIN data :
             ~path.partial => ChildrenPresent(data, data'[path].bytes.ents)
       /\ \A key \in HeadsPresent(heads') :
             (key \notin HeadsPresent(heads) \/ heads[key] # heads'[key]) =>
                [hash |-> heads'[key][1], partial |-> FALSE] \in DOMAIN data
       /\ op.k = "backup" =>
             /\ RootsPresent(data, heads) => RootsPresent(data', heads')
             /\ op'.k = "backup" =>
                   \A h \in op'.wrote :
                      /\ [hash |-> h, partial |-> FALSE] \in DOMAIN data'
                      /\ ChildrenPresent(data', data'[[hash |-> h, partial |-> FALSE]].bytes.ents)
             /\ op'.k = "idle" => data' = data /\ heads' = heads]_vars

\* a backup has written a directory blob below the top one, the top one, and
\* then its head
C10_Witness ==
    /\ op.k = "backup" /\ op.st = "cache"
    /\ \E h \in op.wrote : \E i \in 1..Len(h.md5.ents) :
          h.md5.ents[i].t = "D" /\ h.md5.ents[i].h \in op.wrote

\* C11: a step of a non-dry-run backup adds at most one head file, in the
\* snapshot directory of its source and under a timestamp no file of that
\* directory has, and never changes or deletes a head that names a root; while
\* the timestamp of the clock is taken the run only waits; and a run that
\* completes leaves exactly one head file more than it found, holding its root.
C11_HeadsAppendOnly ==
    [][op.k = "backup" =>
         /\ \A key \in DOMAIN heads :
               /\ key \in DOMAIN heads'
               /\ heads[key] # <<>> => heads'[key] = heads[key]
               /\ heads'[key] # heads[key] => key = <<ProjectName(op.ctx), op.ts>>
         /\ \A key \in DOMAIN heads' \ DOMAIN heads :
               /\ DOMAIN heads' \ DOMAIN heads = {key}
               /\ ~op.dry
               /\ key = <<ProjectName(op.ctx), now>>
         /\ (op.st = "begin" /\ op.todo = <<>> /\ ~op.dry /\ op'.k = "backup"
                /\ <<ProjectName(op.ctx), now>> \in DOMAIN heads) =>
               heads' = heads /\ (now' = now + 1 \/ now' = now)
         /\ (op'.k = "idle" /\ out'.k = "backup" /\ out'.ok /\ ~out'.dry) =>
               /\ DOMAIN heads' \ DOMAIN op.heads0 = {out'.head}
               /\ heads'[out'.head] = <<out'.root>>
               /\ \A key \in DOMAIN op.heads0 : heads'[key] = op.heads0[key]]_vars

\* a backup found the timestamp of the clock taken by a head of its
\* directory, waited, and wrote its head under the next one
C11_Witness ==
    /\ out.k = "backup" /\ out.ok /\ ~out.dry
    /\ out.head[2] > 0
    /\ <<out.head[1], 0>> \in DOMAIN heads
    /\ heads[out.head] = <<out.root>>

\* C12: after a completed non-dry-run backup, from a source with or without
\* a project name, the head it wrote is one of the snapshots BackupRoots lists
\* in the context of that source and one of those AllBackupRoots lists.
C12_HeadEnumerated ==
    (op.k = "idle" /\ out.k = "backup" /\ out.ok /\ ~out.dry) =>
        /\ out.head \in DOMAIN heads
        /\ out.head \in BackupRoots(out.ctx, heads)
        /\ out.head \in AllBackupRoots(out.ctx, heads)

\* the same for sources that have a project name
C12_NamedHeadEnumerated ==
    (op.k = "idle" /\ out.k = "backup" /\ out.ok /\ ~out.dry
        /\ ProjectName(out.ctx) # "") =>
        /\ out.head \in BackupRoots(out.ctx, heads)
        /\ out.head \in AllBackupRoots(out.ctx, heads)

\* the entries of the scanned directories that are files or links
LeafEntries(o) ==
    {x \in o.scanned \X (1..Cardinality(Paths)) :
        /\ x[2] <= Len(o.ents[x[1]])
        /\ o.ents[x[1]][x[2]].t # "D"}

\* C13: no step of a dry-run backup changes a file under data/ or
\* snapshots/ or the hash-cache file; the run still hashes the whole tree:
\* its summary gives the root digest, counts every file, link and directory it
\* scanned, and counts as archived every one whose blob the store lacks.
C13_DryRunFrame ==
    [][(op.k = "backup" /\ op.dry) =>
         /\ data' = data /\ heads' = heads /\ cacheFile' = cacheFile
         /\ (op'.k = "idle" /\ out'.k = "backup" /\ out'.ok) =>
               /\ out'.dry /\ out'.unchanged
               /\ out'.root = DirHash(op.ents, TopDir)
               /\ \A d \in op.scanned : \A i \in 1..Len(op.ents[d]) :
                     op.ents[d][i].t = "L" =>
                         op.ents[d][i].h = MD5(FilePayload(op.ents[d][i].tgt))
               /\ out'.stats.FilesTotal = Cardinality(LeafEntries(op))
               /\ out'.stats.DirsTotal = Cardinality(op.scanned)
               /\ out'.stats.FilesArchived =
                     Cardinality({x \in LeafEntries(op) :
                         ~Exists(data, DataStore(op.ents[x[1]][x[2]].h))})
               /\ out'.stats.DirsArchived =
                     Cardinality({d \in op.scanned :
                         ~Exists(data, DataStore(DirHash(op.ents, d)))})]_vars

\* a dry run over a tree the store does not hold ended: it counted files and
\* directories to archive, and the store has no blob and no head
C13_Witness ==
    /\ op.k = "idle" /\ out.k = "backup" /\ out.ok /\ out.dry
    /\ out.stats.FilesArchived > 0 /\ out.stats.DirsArchived > 0
    /\ out.root # NoHash
    /\ data = EmptyFcn /\ heads = EmptyFcn

\* every operation so far ran to its end without an error, and no blob file
\* was touched from outside
OnlyCompletedOperations == op.k = "idle" /\ ncrashes = 0 /\ nfailed = 0 /\ ndamage = 0

\* C14: on a store changed only by backups and removes that completed,
\* from sources with and without a project name, check and check --deep find
\* no error, from the context of any source.
C14_HealthyStoreChecks ==
    OnlyCompletedOperations =>
        \A ctx \in Sources, deep \in BOOLEAN :
            Verify(ctx, data, heads, LoadedCache(ctx), deep) = <<>>

\* the same where no head lies directly under snapshots/ and no source file
\* changed since the first backup
C14_NamedUnedited ==
    (OnlyCompletedOperations /\ nedits = 0 /\ \A key \in DOMAIN heads : key[1] # "") =>
        \A ctx \in Sources, deep \in BOOLEAN :
            Verify(ctx, data, heads, LoadedCache(ctx), deep) = <<>>

\* the same where no head lies directly under snapshots/, for the check
\* that does not read the blobs
C14_NamedShallow ==
    (OnlyCompletedOperations /\ \A key \in DOMAIN heads : key[1] # "") =>
        \A ctx \in Sources : Verify(ctx, data, heads, LoadedCache(ctx), FALSE) = <<>>

\* the step is a run of the command of the kind, from start to end
Ran(kind) == op.k = "idle" /\ op'.k = "idle" /\ nops' = nops + 1 /\ out'.k = kind

\* the blob of the digest is there and is a gzip stream: its listing can be read
Readable(d, hash) == Exists(d, DataStore(hash)) /\ d[DataStore(hash)].complete

\* the digests reached from the roots through the listings that can be read:
\* dirs are the digests met as a root or a D entry and not yet opened
RECURSIVE ReachedThrough(_, _, _, _)
ReachedThrough(d, dirs, opened, met) ==
    IF dirs \subseteq opened THEN met
    ELSE LET hash == CHOOSE x \in dirs \ opened : TRUE
             lines == IF Readable(d, hash) THEN ListingLines(d, hash) ELSE <<>>
         IN ReachedThrough(d,
                dirs \cup {lines[i].h : i \in {j \in 1..Len(lines) : lines[j].t = "D"}},
                opened \cup {hash},
                met \cup {lines[i].h : i \in 1..Len(lines)})

\* the digests check visits in the context b
Reached(b, d, hs) ==
    LET roots == {hs[key][1] : key \in BackupRoots(b, hs)}
    IN ReachedThrough(d, roots, {}, roots)

\* how many errors of the list are of the kind and about the digest
CountErrors(errs, kind, about) ==
    Cardinality({i \in 1..Len(errs) : errs[i] = VerifyError(kind, about)})

\* the list has one missing-blob or empty-blob error for each digest visited
\* whose blob is absent or of size zero, and none for any other digest
ReportsMissingAndEmpty(errs, b, d, hs) ==
    LET reached == Reached(b, d, hs)
    IN \A hash \in reached \cup GetAllBlobs(d) :
          LET visited == hash \in reached
              absent == ~Exists(d, DataStore(hash))
              empty == ~absent /\ FileSize(d[DataStore(hash)]) = 0
          IN /\ CountErrors(errs, "missing", hash) = IF visited /\ absent THEN 1 ELSE 0
             /\ CountErrors(errs, "empty", hash) = IF visited /\ empty THEN 1 ELSE 0

\* after the errors of the traversal the list has one unreferenced-blob error
\* for each digest FindUnreferenced returns
ReportsUnreferenced(errs, b, d, hs) ==
    LET u == FindUnreferenced(b, d, hs)
    IN ~u.err =>
        /\ \A hash \in GetAllBlobs(d) \cup Reached(b, d, hs) :
              CountErrors(errs, "unreferenced", hash) =
                  IF hash \in u.unreferenced THEN 1 ELSE 0
        /\ \A i, j \in 1..Len(errs) :
              (errs[i].kind = "unreferenced" /\ errs[j].kind \in
                    {"missing", "empty", "corrupt", "dirread", "traversal"}) => j < i

\* C15: in every store, damaged or not, and every context, the list of
\* Verify has exactly one missing-blob or empty-blob error for each digest it
\* reaches through readable listings whose blob is absent or of size zero,
\* followed by exactly one unreferenced-blob error for each digest of
\* FindUnreferenced; and the check command returns that list's errors and fails
\* exactly when the list is not empty.
C15_VerifyCollects ==
    /\ [](\A ctx \in Contexts, deep \in BOOLEAN :
            LET errs == Verify(ctx, data, heads, LoadedCache(ctx), deep)
            IN /\ ReportsMissingAndEmpty(errs, ctx, data, heads)
               /\ ReportsUnreferenced(errs, ctx, data, heads))
    /\ [][Ran("check") =>
            /\ out'.errs = Verify(out'.ctx, data, heads, LoadedCache(out'.ctx), out'.deep)
            /\ out'.ok = (out'.errs = <<>>)
            /\ data' = data /\ heads' = heads]_vars

\* check ran on a store with a deleted blob, an emptied blob and a blob no
\* head reaches any more: it failed with one error for each of them
C15_Witness ==
    /\ out.k = "check" /\ ~out.ok
    /\ \E i, j, k \in 1..Len(out.errs) :
          /\ out.errs[i].kind = "missing"
          /\ out.errs[j].kind = "empty"
          /\ out.errs[k].kind = "unreferenced"
          /\ i < k /\ j < k
    /\ out.errs = Verify(out.ctx, data, heads, LoadedCache(out.ctx), out.deep)

\* the digests check opens as a listing in the context b: the roots and the
\* D entries of the listings that can be read
RECURSIVE DirsThrough(_, _, _)
DirsThrough(d, dirs, opened) ==
    IF dirs \subseteq opened THEN dirs
    ELSE LET hash == CHOOSE x \in dirs \ opened : TRUE
             lines == IF Readable(d, hash) THEN ListingLines(d, hash) ELSE <<>>
         IN DirsThrough(d,
                dirs \cup {lines[i].h : i \in {j \in 1..Len(lines) : lines[j].t = "D"}},
                opened \cup {hash})

ReachedAsDirectory(b, d, hs) ==
    DirsThrough(d, {hs[key][1] : key \in BackupRoots(b, hs)}, {})

\* the file of the digest is no gzip stream
NotGzip(d, hash) == Exists(d, DataStore(hash)) /\ ~d[DataStore(hash)].complete

\* the file of the digest is a gzip stream of bytes that hash to another digest
Mismatch(d, hash) ==
    /\ Exists(d, DataStore(hash)) /\ d[DataStore(hash)].complete
    /\ MD5(d[DataStore(hash)].bytes) # hash

\* a failing shallow check for every non-gzip blob opened as a listing
ShallowFailsOnDirectories(b, d, hs, hc) ==
    \A hash \in ReachedAsDirectory(b, d, hs) :
        NotGzip(d, hash) => Verify(b, d, hs, hc, FALSE) # <<>>

\* C16 as stated: for every digest check reaches whose blob is no gzip
\* stream, a file of size zero included, or holds other bytes than the digest's,
\* the deep check has a corrupt-blob error for the digest; and the shallow check
\* fails if a non-gzip blob is opened as a listing.
C16_CorruptReported ==
    \A ctx \in Contexts :
        /\ \A hash \in Reached(ctx, data, heads) :
              (NotGzip(data, hash) \/ Mismatch(data, hash)) =>
                  CountErrors(Verify(ctx, data, heads, LoadedCache(ctx), TRUE),
                              "corrupt", hash) = 1
        /\ ShallowFailsOnDirectories(ctx, data, heads, LoadedCache(ctx))

\* C16, amended: for every digest check reaches whose blob is not empty
\* and is no gzip stream or holds other bytes than the digest's, the deep check
\* has one corrupt-blob error for the digest (a blob of size zero is reported as
\* an empty blob instead, by both checks); and the shallow check fails if a
\* non-gzip blob is opened as a listing.
C16_CorruptNonEmptyReported ==
    \A ctx \in Contexts :
        /\ \A hash \in Reached(ctx, data, heads) :
              LET errs == Verify(ctx, data, heads, LoadedCache(ctx), TRUE)
              IN /\ ((NotGzip(data, hash) /\ FileSize(data[DataStore(hash)]) > 0)
                        \/ Mismatch(data, hash)) =>
                        CountErrors(errs, "corrupt", hash) = 1
                 /\ (NotGzip(data, hash) /\ FileSize(data[DataStore(hash)]) = 0) =>
                        /\ CountErrors(errs, "empty", hash) = 1
                        /\ CountErrors(errs, "corrupt", hash) = 0
        /\ ShallowFailsOnDirectories(ctx, data, heads, LoadedCache(ctx))

\* a shallow check passed on a store in which the blob of a file was
\* overwritten with bytes that are no gzip stream, where the deep check reports
\* the blob as corrupt
C16_Witness ==
    /\ out.k = "check" /\ ~out.deep /\ out.ok
    /\ \E hash \in Reached(out.ctx, data, heads) :
          /\ NotGzip(data, hash) /\ FileSize(data[DataStore(hash)]) > 0
          /\ hash \notin ReachedAsDirectory(out.ctx, data, heads)
          /\ Verify(out.ctx, data, heads, LoadedCache(out.ctx), FALSE) = <<>>
          /\ CountErrors(Verify(out.ctx, data, heads, LoadedCache(out.ctx), TRUE),
                         "corrupt", hash) = 1

\* C17: where FindUnreferenced succeeds, in any context: a dry-run prune
\* leaves data/ as it is and returns the count and bytes the real prune run next
\* returns; after the real prune FindUnreferenced returns nothing, check has no
\* unreferenced-blob error, and another prune removes 0 blobs. The prune command
\* does to the store and reports what these operators say.
C17_PruneDryRunAgrees ==
    /\ [](\A ctx \in Contexts :
            LET pruned == PruneData(ctx, data, heads, FALSE)
            IN ~FindUnreferenced(ctx, data, heads).err =>
                /\ PruneData(ctx, data, heads, TRUE) = data
                /\ PruneStats(ctx, data, heads, TRUE) =
                      PruneStats(ctx, PruneData(ctx, data, heads, TRUE), heads, FALSE)
                /\ PruneStats(ctx, data, heads, FALSE).BlobsRemoved =
                      Cardinality(GetAllBlobs(data) \ GetAllBlobs(pruned))
                /\ FindUnreferenced(ctx, pruned, heads) = [err |-> FALSE, unreferenced |-> {}]
                /\ \A deep \in BOOLEAN :
                      \A i \in 1..Len(Verify(ctx, pruned, heads, LoadedCache(ctx), deep)) :
                          Verify(ctx, pruned, heads, LoadedCache(ctx), deep)[i].kind
                              \notin {"unreferenced", "detect"}
                /\ PruneStats(ctx, pruned, heads, FALSE) =
                      [BlobsRemoved |-> 0, BytesRemoved |-> 0])
    /\ [][(Ran("prune") /\ out'.ok) =>
            /\ \E ctx \in Contexts :
                  /\ data' = PruneData(ctx, data, heads, out'.dry)
                  /\ Cardinality(out'.removed) =
                        PruneStats(ctx, data, heads, out'.dry).BlobsRemoved
                  /\ out'.bytes = PruneStats(ctx, data, heads, out'.dry).BytesRemoved
            /\ out'.dry => data' = data
            /\ heads' = heads]_vars

\* a dry-run prune found blobs to remove and left them, and the prune run
\* next would remove as many
C17_Witness ==
    /\ out.k = "prune" /\ out.ok /\ out.dry /\ op.k = "idle"
    /\ out.removed # {} /\ out.bytes > 0
    /\ out.removed \subseteq GetAllBlobs(data)
    /\ \A ctx \in Contexts :
          PruneStats(ctx, data, heads, FALSE) =
              [BlobsRemoved |-> Cardinality(out.removed), BytesRemoved |-> out.bytes]

\* the blob files of data/ a step deletes
BlobsDeleted == {path \in DOMAIN data \ DOMAIN data' : ~path.partial}

StockedAfterBackup ==
    /\ op.k = "idle" /\ out.k = "backup" /\ out.ok /\ out.ctx = "B" /\ nops = 1
    /\ data = StockedData
    /\ heads = Put(EmptyFcn, StockedHead, <<DirHash(StockedEnts, TopDir)>>)
    /\ cacheFile["B"] = FileHashAll(EmptyFcn, TreeB, {<<"a">>})
    /\ cacheFile["A"] = EmptyFcn /\ cacheFile["U"] = EmptyFcn
    /\ taken = Put(EmptyFcn, StockedHead, [tree |-> TreeB, clean |-> TRUE])
    /\ now = 0 /\ nedits = 0 /\ ncrashes = 0 /\ nfailed = 0

\* C19: a remove that is given a name that resolves to no snapshot ends
\* with an error (a non-zero exit code).
C19_RemoveMissingFails ==
    (out.k = "remove" /\ ~out.found) => ~out.ok

\* the commands of the model other than remove report an error when an
\* operation they run fails: a failed backup, prune or check is not a success
C19_OthersFail ==
    /\ (out.k = "check" /\ out.errs # <<>>) => ~out.ok
    /\ (out.k = "restore" /\ ~out.found) => ~out.ok

\* the order of two lines of a listing: F before D before L, then by the
\* digest as text, then by the name
LineLess(li, lj) ==
    \/ TypeOrd(li.t) < TypeOrd(lj.t)
    \/ li.t = lj.t /\ SeqLess(Hex(li.h), Hex(lj.h))
    \/ li.t = lj.t /\ li.h = lj.h /\ TokRank(li.n) < TokRank(lj.n)

\* the listings under data/ are in that order, strictly
ListingsSorted ==
    \A path \in DOMAIN data :
        (~path.partial /\ data[path].complete) =>
            LET lines == data[path].bytes.ents
            IN \A i, j \in 1..Len(lines) : i < j => LineLess(lines[i], lines[j])

\* sorting a sequence with the comparison of the scan, one element at a time
RECURSIVE InsertSorted(_, _)
InsertSorted(e, sorted) ==
    IF sorted = <<>> THEN <<e>>
    ELSE IF Less(e, Head(sorted)) THEN <<e>> \o sorted
    ELSE <<Head(sorted)>> \o InsertSorted(e, Tail(sorted))

RECURSIVE SortListed(_)
SortListed(es) == IF es = <<>> THEN <<>> ELSE InsertSorted(Head(es), SortListed(Tail(es)))

Orders(n) == {f \in [1..n -> 1..n] : \A i, j \in 1..n : f[i] = f[j] => i = j}

ListedNames ==
    UNION {{data[path].bytes.ents[i].n : i \in 1..Len(data[path].bytes.ents)} :
              path \in {q \in DOMAIN data : ~q.partial}}

\* C21: no listing a backup has written has a line for the name .backup,
\* whether the source entry of that name is a directory, a file or a link, at
\* the top of the tree or below, and whatever the ignore files say.
C21_NoBackupDirListed == ".backup" \notin ListedNames

\* the same for the trees in which no link is named .backup
C21_NoBackupDirListedUnlessLink ==
    (\A p \in Paths : Base(p) = ".backup" => src["A"][p].t # "L") =>
        ".backup" \notin ListedNames

\* a backup ended on a tree that has a directory or a file named .backup
\* and an ignore file that re-includes the name
C21_NonLinkWitness ==
    /\ out.k = "backup" /\ out.ok /\ ~out.dry
    /\ src["A"][<<".backup">>].t \in {"D", "F"}
    /\ src["A"][<<"sub", ".backup">>].t = "F"
    /\ src["A"][<<".backupignore">>].c = << <<"!", ".backup">> >>
    /\ ListedNames # {}

\* the text a pattern is compared with, by the pattern's form: the path
\* relative to the matcher's directory for an anchored pattern or one that
\* holds a '/', the base name for any other
Subject(p, dir, path) ==
    IF p.isRooted \/ "/" \in {p.pattern[i] : i \in 1..Len(p.pattern)}
    THEN RelPath(dir, path)
    ELSE <<Base(path)>>

\* the positions of the patterns of matcher m that match path
Matching(m, path, isDir) ==
    {i \in 1..Len(m.patterns) :
        /\ m.patterns[i].isDirOnly => isDir
        /\ globMatch(m.patterns[i].pattern, Subject(m.patterns[i], m.dir, path))}

Greatest(S) == CHOOSE x \in S : \A y \in S : y <= x
Least(S) == CHOOSE x \in S : \A y \in S : x <= y

\* the decision the nearest matcher with a matching pattern makes by its last
\* matching pattern; include (FALSE) when no matcher has one
Decision(chain, path, isDir) ==
    LET having == {j \in 1..Len(chain) : Matching(chain[j], path, isDir) # {}}
    IN IF having = {} THEN FALSE
       ELSE LET m == chain[Least(having)]
            IN ~m.patterns[Greatest(Matching(m, path, isDir))].isNegation

Below(dir) == {p \in Paths : Len(p) > Len(dir) /\ SubSeq(p, 1, Len(dir)) = dir}

\* C22: for every matcher chain a backup has loaded and every path below the
\* matcher's directory, as a file and as a directory, Match returns the
\* decision of the nearest matcher that has a matching pattern, by the last
\* matching pattern of that matcher (ignore if positive, include if negated);
\* a directory-only pattern matches only a directory, an anchored pattern or
\* one with a '/' is matched against the relative path and any other against
\* the base name; with no matching pattern the path is included.
C22_MatchDecision ==
    op.k = "backup" =>
        \A dir \in DirPaths : \A p \in Below(dir) : \A isDir \in BOOLEAN :
            Match(Chain(op.pat, dir), p, isDir) = Decision(Chain(op.pat, dir), p, isDir)

\* the matcher of sub is loaded and has no pattern for sub/c while the root
\* matcher's first and last matching patterns for it disagree; and a
\* directory-only pattern that would match is passed over for a file
C22_Witness ==
    /\ op.k = "backup"
    /\ op.pat[<<"sub">>] # <<>>
    /\ \E p \in Below(<<"sub">>) :
          LET chain == Chain(op.pat, <<"sub">>)
              ms == Matching(chain[2], p, FALSE)
          IN /\ Matching(chain[1], p, FALSE) = {}
             /\ ms # {}
             /\ chain[2].patterns[Least(ms)].isNegation # chain[2].patterns[Greatest(ms)].isNegation
    /\ \E p \in Below(<<"sub">>) :
          Matching(Chain(op.pat, <<"sub">>)[1], p, TRUE) # {}

\* the patterns of one ignore file of the top directory of source A
FilePatterns(name) == loadFile(IgnoreLines(src["A"], TopDir, name))
BothIgnoreFiles ==
    /\ src["A"][<<".gitignore">>].t = "F"
    /\ src["A"][<<".backupignore">>].t = "F"
OneList(patterns) == <<[dir |-> TopDir, patterns |-> patterns]>>

\* C23: when the top directory holds both .gitignore and .backupignore, the
\* decision of its matcher for every path equals that of the single list of
\* the .gitignore patterns followed by the .backupignore patterns, and when
\* a .backupignore pattern matches, the decision is the one of the last
\* matching .backupignore pattern, whatever .gitignore says.
C23_BackupIgnoreLast ==
    (op.k = "backup" /\ BothIgnoreFiles) =>
        \A p \in Paths : \A isDir \in BOOLEAN :
            LET both == FilePatterns(".gitignore") \o FilePatterns(".backupignore")
                own == OneList(FilePatterns(".backupignore"))
                decision == Match(Chain(op.pat, TopDir), p, isDir)
            IN /\ decision = Match(OneList(both), p, isDir)
               /\ Matching(own[1], p, isDir) # {} => decision = Match(own, p, isDir)

\* both files are loaded and give opposite decisions for one path
C23_Witness ==
    /\ op.k = "backup"
    /\ BothIgnoreFiles
    /\ \E p \in Paths : \E isDir \in BOOLEAN :
          LET git == OneList(FilePatterns(".gitignore"))
              own == OneList(FilePatterns(".backupignore"))
          IN /\ Matching(git[1], p, isDir) # {}
             /\ Matching(own[1], p, isDir) # {}
             /\ Match(git, p, isDir) # Match(own, p, isDir)

\* every value is 32 hexadecimal characters and every key has the form
\* '<mtime_ms> <size> <relpath>'
WellFormedCache(hc) ==
    \A key \in DOMAIN hc :
        /\ HashLen(hc[key]) = 32 /\ HashIsHex(hc[key])
        /\ key.rel # <<>>
CacheErrors(errs) == {i \in 1..Len(errs) : errs[i].kind = "cache"}

\* C24: HashCache.Verify succeeds exactly when every value of the cache is 32
\* hexadecimal characters and every key parses as '<mtime_ms> <size>
\* <relpath>'; a check run from a source directory whose cache fails it lists
\* a hash-cache error and fails, and lists none when the cache passes.
C24_CacheVerified ==
    /\ [](\A s \in Sources : HashCacheVerify(cacheFile[s]) <=> WellFormedCache(cacheFile[s]))
    /\ [][(Ran("check") /\ HasTop(out'.ctx)) =>
             IF WellFormedCache(cacheFile[out'.ctx])
             THEN CacheErrors(out'.errs) = {}
             ELSE CacheErrors(out'.errs) # {} /\ ~out'.ok]_vars

\* a check from source A has failed on a cache whose values are all digests
\* and that has a key without a path
C24_Witness ==
    /\ out.k = "check" /\ out.ctx = "A" /\ ~out.ok
    /\ CacheErrors(out.errs) # {}
    /\ HashCacheVerifyValues(cacheFile["A"])
    /\ ~WellFormedCache(cacheFile["A"])

\* the entries prune is to remove: the key does not parse, the file is absent,
\* or its current (mtime_ms, size) differs from the key's
Removable(hc, tree) ==
    {key \in DOMAIN hc :
        \/ key.rel = <<>>
        \/ key.rel \notin Paths
        \/ tree[key.rel].t = "-"
        \/ <<tree[key.rel].mt, Size(tree[key.rel].c)>> # <<key.mt, key.size>>}
OnePerPath(hc) == \A k1, k2 \in DOMAIN hc : k1.rel = k2.rel => k1 = k2
BackupSucceeds ==
    op.k = "backup" /\ op'.k = "idle" /\ out'.k = "backup" /\ out'.ok /\ ~out'.dry

\* C25: prune-cache run from a source directory reports the number of entries
\* whose key does not parse, whose file is absent or whose (mtime_ms, size)
\* differs; when it is no dry run and that number is not 0, the cache file
\* loses exactly these entries, and otherwise is left as it was; after a run
\* that is no dry run the cache has at most one entry per relpath and a second
\* prune removes nothing; and the cache file a successful backup leaves has
\* at most one entry per relpath.
C25_PruneExact ==
    [][/\ (Ran("prune-cache") /\ HasTop(out'.ctx)) =>
            LET s == out'.ctx
                gone == Removable(cacheFile[s], src[s])
            IN /\ out'.ok
               /\ out'.count = Cardinality(gone)
               /\ cacheFile'[s] = IF out'.dry THEN cacheFile[s] ELSE Drop(cacheFile[s], gone)
               /\ ~out'.dry => /\ OnePerPath(cacheFile'[s])
                               /\ HashCachePrune(cacheFile'[s], src'[s]) = cacheFile'[s]
       /\ BackupSucceeds => OnePerPath(cacheFile'[out'.ctx])]_vars

\* prune-cache has removed two entries and left others
C25_Witness ==
    /\ out.k = "prune-cache" /\ out.ok /\ ~out.dry /\ out.count = 2
    /\ cacheFile["A"] # EmptyFcn
    /\ OnePerPath(cacheFile["A"])

\* the non-ignored entries of source s, at any depth, as status builds them
SourceEntries(s) ==
    LET ents == StatusEntries(LoadedCache(s), src[s])
        top == {ents[TopDir][i] : i \in 1..Len(ents[TopDir])}
    IN top \cup UNION {{ents[e.p][i] : i \in 1..Len(ents[e.p])} : e \in {f \in top : f.t = "D"}}
CurrentDigest(s, e) == EntryHash(StatusEntries(LoadedCache(s), src[s]), e)

\* the listings of the latest snapshot of s that correspond to directory dir:
\* the root listing for the top, below it the listing a D line of the
\* parent's listing names
RECURSIVE LatestListings(_, _)
LatestListings(s, dir) ==
    IF dir = TopDir
    THEN (IF LatestBackupRoot(s, heads).some THEN {LatestBackupRoot(s, heads).h} ELSE {})
    ELSE {l.h : l \in {m \in UNION {Entries(data, h) : h \in
                                      {g \in LatestListings(s, DirOf(dir)) : EntriesOk(data, g)}} :
                         m.n = Base(dir) /\ m.t = "D"}}
NamedInLatest(s, e) ==
    \E h \in LatestListings(s, DirOf(e.p)) :
        EntriesOk(data, h) /\ \E l \in Entries(data, h) : l.n = e.n
BlobPresent(s, e) == DataStore(CurrentDigest(s, e)) \in DOMAIN data
Descendants(s, e) == {f \in SourceEntries(s) : IsBelow(f.p, e.p)}

\* the classification table
Classification(s, e) ==
    CASE NamedInLatest(s, e) /\ BlobPresent(s, e) -> "."
      [] ~NamedInLatest(s, e) /\ BlobPresent(s, e) -> "n"
      [] ~NamedInLatest(s, e) /\ ~BlobPresent(s, e) -> "N"
      [] OTHER -> IF e.t = "D" /\ \E f \in Descendants(s, e) : ~BlobPresent(s, f)
                  THEN "n" ELSE "E"

\* C26: a status run from a source directory that succeeds prints one status
\* for every non-ignored entry of the tree, and it is the one of the table:
\* (named in the corresponding directory of the latest snapshot, blob of the
\* entry's digest present) Archived; (not named, present) NewContentKnown;
\* (not named, absent) New; (named, absent) ArchivedMissingContent, except
\* for a directory with a descendant whose blob is absent: NewContentKnown.
\* The digest of a file entry is the one the hash cache gives.
C26_StatusTable ==
    [][(Ran("status") /\ HasTop(out'.ctx) /\ out'.ok) =>
          /\ DOMAIN out'.cls = {e.p : e \in SourceEntries(out'.ctx)}
          /\ \A e \in SourceEntries(out'.ctx) :
                out'.cls[e.p] = Classification(out'.ctx, e)]_vars

\* a status has printed New, Archived, ArchivedMissingContent for a file and
\* NewContentKnown for a directory that is named in the latest snapshot
C26_Witness ==
    /\ out.k = "status" /\ out.ok /\ out.ctx = "A"
    /\ <<"sub">> \in DOMAIN out.cls /\ out.cls[<<"sub">>] = "n"
    /\ <<"sub", "c">> \in DOMAIN out.cls /\ out.cls[<<"sub", "c">>] = "E"
    /\ \E p, q \in DOMAIN out.cls : out.cls[p] = "." /\ out.cls[q] = "N"
    /\ NamedInLatest("A", CHOOSE e \in SourceEntries("A") : e.p = <<"sub">>)

\* a status has printed New and NewContentKnown for entries the latest
\* snapshot does not name
C26_NewWitness ==
    /\ out.k = "status" /\ out.ok /\ out.ctx = "A"
    /\ \E p, q \in DOMAIN out.cls :
          /\ out.cls[p] = "N" /\ out.cls[q] = "n"
          /\ \A e \in SourceEntries("A") : e.p \in {p, q} => ~NamedInLatest("A", e)

\* the head files without those that are empty or whose name is no timestamp
GoodHeads(hs) ==
    [key \in {k \in DOMAIN hs : k[2] >= 0 /\ hs[k] # <<>>} |-> hs[key]]
Nondecreasing(roots) ==
    \A i, j \in 1..Len(roots) : i < j => roots[i][2] <= roots[j][2]

\* C27: BackupRoots, in every context, and AllBackupRoots return what they
\* would return if the empty head files and the files whose name is no
\* timestamp were not there: every valid head of the project directories in
\* scope, none with an empty digest, in the order of their timestamps; and
\* check, prune and status, which enumerate through them, give the result
\* they would give without the bad files.
C27_BadHeadsSkipped ==
    \A ctx \in Contexts :
        LET good == GoodHeads(heads)
        IN /\ BackupRoots(ctx, heads) = BackupRoots(ctx, good)
           /\ AllBackupRoots(ctx, heads) = AllBackupRoots(ctx, good)
           /\ \A key \in DOMAIN good :
                 /\ key[1] # "" => key \in AllBackupRoots(ctx, heads)
                 /\ key[1] # "" /\ ProjectName(ctx) \in {"", key[1]} =>
                       key \in BackupRoots(ctx, heads)
           /\ \A key \in BackupRoots(ctx, heads) \cup AllBackupRoots(ctx, heads) :
                 key \in DOMAIN good /\ RootHash(heads, key) = heads[key][1]
           /\ Nondecreasing(SortRoots(BackupRoots(ctx, heads)))
           /\ Nondecreasing(SortRoots(AllBackupRoots(ctx, heads)))
           /\ Verify(ctx, data, heads, LoadedCache(ctx), FALSE)
                 = Verify(ctx, data, good, LoadedCache(ctx), FALSE)
           /\ FindUnreferenced(ctx, data, heads) = FindUnreferenced(ctx, data, good)
           /\ LatestBackupRoot(ctx, heads) = LatestBackupRoot(ctx, good)

\* a project directory holds a valid head, an empty file with a timestamp
\* for a name and a file with another name that holds a digest, and a check
\* has passed
C27_Witness ==
    /\ out.k = "check" /\ out.ok
    /\ \E ts \in 0..1 : <<"pa", ts>> \in BackupRoots("A", heads)
    /\ \E ts \in 0..1 : <<"pa", ts>> \in DOMAIN heads /\ heads[<<"pa", ts>>] = <<>>
    /\ <<"pa", -1>> \in DOMAIN heads /\ heads[<<"pa", -1>>] # <<>>

\* the directory digests the reachability walk of the store meets: the roots
\* of the heads of every project and the D entries of the listings it reads
MetAsDirectory(b, d, hs) ==
    DirsThrough(d, {RootHash(hs, key) : key \in AllBackupRoots(b, hs)}, {})

\* C28: whenever the reachability walk meets a directory digest whose blob is
\* absent from data/, GetReachableBlobs returns an error to its caller.
C28_MissingDirReported ==
    \A ctx \in Contexts :
        (\E hash \in MetAsDirectory(ctx, data, heads) : ~Exists(data, DataStore(hash)))
            => GetReachableBlobs(ctx, data, heads).err

\* the same for a directory blob that is there and is no gzip stream
C28_UnreadableDirReported ==
    \A ctx \in Contexts :
        (\E hash \in MetAsDirectory(ctx, data, heads) : NotGzip(data, hash))
            => GetReachableBlobs(ctx, data, heads).err

\* a step in which a backup ends with an error
BackupFails == op.k = "backup" /\ op'.k = "idle" /\ nfailed' = nfailed + 1

\* C29: when a put or a hash computation fails during a backup, the run ends
\* reporting an error, the head files are those of before the run (none was
\* written), the hash-cache file has not been written since the run began,
\* and every file that was under data/ before the run is still there with the
\* same bytes.
C29_FailedBackupFrame ==
    [][/\ BackupFails =>
            /\ out'.k = "backup" /\ ~out'.ok
            /\ heads' = op.heads0
            /\ cacheFile' = cacheFile
            /\ \A path \in DOMAIN op.data0 :
                  path \in DOMAIN data' /\ data'[path] = op.data0[path]
       /\ (op.k = "backup" /\ ~(op'.k = "idle" /\ out'.ok)) => cacheFile' = cacheFile]_vars

\* a backup has failed after it wrote a blob, in a store that held a head
C29_Witness ==
    /\ out.k = "backup" /\ ~out.ok /\ op.k = "idle"
    /\ nfailed = 1
    /\ heads # EmptyFcn
    /\ \E ctx \in {"A", "B"} : cacheFile[ctx] # EmptyFcn
    /\ \E path \in DOMAIN data : data[path].bytes = FilePayload(Ho)

\* a backup has failed while it scanned a directory
C29_ScanWitness ==
    /\ out.k = "backup" /\ ~out.ok /\ op.k = "idle"
    /\ nfailed = 1 /\ nedits = 1
    /\ data = EmptyFcn
    /\ src["B"][<<"a">>].t = "-"

Partials(d) == {path \in DOMAIN d : path.partial}

\* C30: when a backup that is no dry run completes successfully, no *.partial
\* file exists under data/, whatever an earlier aborted backup left there.
C30_NoPartialAfterBackup ==
    [][BackupSucceeds => Partials(data') = {}]_vars

\* the same for the *.partial files of the digests the backup itself stored
C30_OwnPartialsGone ==
    [][BackupSucceeds =>
          \A path \in Partials(data') : path.hash \notin out'.wrote]_vars

\* the digests that have a *.partial file and no file at the final path
Leftover(d) == {path.hash : path \in Partials(d)} \ {path.hash : path \in DOMAIN d \ Partials(d)}
WithoutPartials(d) == Drop(d, Partials(d))

\* the digest of the blob the next put of the running backup is about
NextPut(o) ==
    IF Head(o.todo).k = "putdir" THEN DirHash(o.ents, Head(o.todo).e.p) ELSE Head(o.todo).e.h

\* C31: a leftover <digest>.gz.partial never counts as a blob: GetAllBlobs and
\* FindUnreferenced do not name its digest, and they and Verify return what
\* they return without the *.partial files; prune removes no *.partial file;
\* a put of that digest in a backup that is no dry run does not take the blob
\* for stored but writes it, and when its rename is done the final path holds
\* the complete blob and the *.partial file is gone.
C31_PartialIsNoBlob ==
    /\ [](\A ctx \in Contexts :
            /\ GetAllBlobs(data) \cap Leftover(data) = {}
            /\ GetAllBlobs(data) = GetAllBlobs(WithoutPartials(data))
            /\ FindUnreferenced(ctx, data, heads)
                  = FindUnreferenced(ctx, WithoutPartials(data), heads)
            /\ \A deep \in BOOLEAN :
                  Verify(ctx, data, heads, LoadedCache(ctx), deep)
                     = Verify(ctx, WithoutPartials(data), heads, LoadedCache(ctx), deep))
    /\ [][/\ Ran("prune") => /\ Partials(data') = Partials(data)
                             /\ out'.removed \cap Leftover(data) = {}
          /\ (/\ op.k = "backup" /\ op.st = "begin" /\ ~op.dry /\ op.todo # <<>>
              /\ Head(op.todo).k \in {"leaf", "putdir"}
              /\ NextPut(op) \in Leftover(data)
              /\ op'.k = "backup" /\ src' = src)
                => /\ op'.st = "copy" /\ op'.h = NextPut(op)
                   /\ op'.todo = op.todo
          /\ (op.k = "backup" /\ op.st = "rename" /\ op'.k = "backup")
                => /\ DataStore(op.h) \in DOMAIN data'
                   /\ data'[DataStore(op.h)] = [bytes |-> op.rd, complete |-> TRUE]
                   /\ op.h \in GetAllBlobs(data') \ Leftover(data')]_vars

\* a backup has stored the blob of a digest whose *.partial file an aborted
\* backup had left in the store
C31_Witness ==
    /\ op.k = "backup" /\ op.st = "begin" /\ ncrashes = 1
    /\ \E h \in op.wrote :
          /\ h \in Leftover(op.data0)
          /\ h \in GetAllBlobs(data) \ Leftover(data)
          /\ data[DataStore(h)].complete

\* C32: the snapshot head file is written atomically: whenever a backup has
\* been interrupted, every head path that exists holds a complete root digest;
\* no head file is left empty by a backup.
C32_HeadAtomic ==
    op.k = "idle" => \A key \in DOMAIN heads : heads[key] # <<>>

\* the content MaybeSaveCache is to leave in the cache file of the running
\* backup: the cache in memory after HashCache.Prune
NewCacheContent(o) == HashCachePrune(o.hc, src[o.ctx])
CacheIsDirty(o) == o.dirty \/ DOMAIN NewCacheContent(o) # DOMAIN o.hc

\* C33: MaybeSaveCache does nothing when the cache is not dirty; when it is
\* dirty the cache file is replaced atomically: every step of a backup leaves
\* the file as it was or puts the complete new content in its place, so that
\* a backup killed between any two steps leaves the complete previous or the
\* complete new content. (The order of the entries is in C33_SaveSortedOrNoop.)
C33_SaveAtomic ==
    [][op.k = "backup" =>
          /\ cacheFile' # cacheFile =>
                /\ CacheIsDirty(op)
                /\ cacheFile' = [cacheFile EXCEPT ![op.ctx] = NewCacheContent(op)]
          /\ (op.st = "cache" /\ ~CacheIsDirty(op)) => cacheFile' = cacheFile]_vars

\* the part that holds of the code: nothing is written when the cache is not
\* dirty, a save writes the entries one after the other in the order of their
\* relpath, and a backup that completes leaves the complete new content
C33_SaveSortedOrNoop ==
    [][op.k = "backup" =>
          /\ (op.st = "cache" /\ ~CacheIsDirty(op)) => cacheFile' = cacheFile
          /\ cacheFile' # cacheFile =>
                /\ \A s \in Sources \ {op.ctx} : cacheFile'[s] = cacheFile[s]
                /\ \/ op.st = "cache" /\ CacheIsDirty(op) /\ cacheFile'[op.ctx] = EmptyFcn
                   \/ /\ op.st = "save"
                      /\ \E key \in DOMAIN op.hc \ DOMAIN cacheFile[op.ctx] :
                            /\ cacheFile'[op.ctx] = Put(cacheFile[op.ctx], key, op.hc[key])
                            /\ \A other \in DOMAIN cacheFile[op.ctx] : ~SavePathLess(key, other)
          /\ BackupSucceeds => cacheFile[op.ctx] = NewCacheContent(op)]_vars

\* a backup was killed while it saved a cache of two entries: the file holds
\* the first of them
C33_KilledWitness ==
    /\ op.k = "idle" /\ out.k = "killed"
    /\ DOMAIN cacheFile["A"] = {CacheKey(TreeA[<<"a">>], <<"a">>)}
    /\ src["A"] = TreeA

\* the digests the D lines of a listing name, and whether following D lines
\* from a digest leads back to it
DirChildren(d, hash) ==
    IF Readable(d, hash)
    THEN {ListingLines(d, hash)[i].h :
             i \in {j \in 1..Len(ListingLines(d, hash)) : ListingLines(d, hash)[j].t = "D"}}
    ELSE {}
OnCycle(d, hash) == hash \in DirsThrough(d, DirChildren(d, hash), {})
NoRepeat(log) == \A i, j \in 1..Len(log) : log[i] = log[j] => i = j

\* the files the walk of verify opens as listings
VerifyOpened(b, d, hs, deep) ==
    verifyRoots(d, hs, SortRoots(BackupRoots(b, hs)), deep, NoErrors).opened

C34_SelfWitness ==
    /\ out.k = "prune" /\ out.ok
    /\ \E key \in AllBackupRoots("A", heads) :
          /\ RootHash(heads, key) \in DirChildren(data, RootHash(heads, key))
          /\ Len(ListingLines(data, RootHash(heads, key))) = 2

\* C35: when a backup that is no dry run completes successfully, every digest
\* in the transitive closure of the head it wrote, the root included, has a
\* blob file in the store, whatever blob files were deleted before the run
\* (children of a listing that stayed included) and whatever digest the hash
\* cache gave for a file.
C35_ClosurePresent ==
    [][BackupSucceeds =>
          /\ out'.head \in DOMAIN heads' /\ heads'[out'.head] = <<out'.root>>
          /\ Closure(data', heads', {out'.head}) \subseteq GetAllBlobs(data')
          /\ \A hash \in Closure(data', heads', {out'.head}) :
                data'[DataStore(hash)].complete]_vars

\* the second backup of a tree found the root listing in the store and wrote
\* blobs below it that had been deleted
C35_Witness ==
    /\ out.k = "backup" /\ out.ok /\ ~out.dry /\ op.k = "idle"
    /\ out.root = out.prevRoot /\ out.root \notin out.wrote
    /\ out.wrote # {}
    /\ ndamage >= 1
    /\ Closure(data, heads, {out.head}) \subseteq GetAllBlobs(data)

\* a backup wrote the blob of a digest the hash cache gave for a file that has
\* other bytes now, after that blob had been deleted
C35_StaleWitness ==
    /\ out.k = "backup" /\ out.ok /\ ~out.dry /\ op.k = "idle"
    /\ ndamage >= 1 /\ nedits = 1
    /\ \E hash \in out.wrote \cap GetAllBlobs(data) :
          /\ MD5(data[DataStore(hash)].bytes) # hash
          /\ hash \in Closure(data, heads, {out.head})

\* the relative path of a key
PathOfKey(key) == SubSeq(key, 5, Len(key))
CacheIsLoaded == op.k = "props" /\ op.st = "saved" /\ op'.st = "loaded"

\* C36: the mapping LoadProperties reads from the file MaybeSaveCache wrote is
\* the cache that was saved, for every set of entries FileHash creates,
\* whatever characters the relative paths hold (spaces, '=', backslashes,
\* leading or trailing blanks).
C36_CacheRoundTrip ==
    [][CacheIsLoaded => op'.hc = op.hc]_vars

\* the same for relative paths without '=' and without a blank at the end
C36_PlainRoundTrip ==
    [][(/\ CacheIsLoaded
        /\ \A key \in DOMAIN op.hc :
              /\ \A i \in 1..Len(PathOfKey(key)) : PathOfKey(key)[i] # "="
              /\ key[Len(key)] # " ")
          => op'.hc = op.hc]_vars

\* a cache with paths of spaces and backslashes was saved and loaded
C36_PlainWitness ==
    /\ op.k = "props" /\ op.st = "loaded"
    /\ DOMAIN op.hc = {KeyText(<<" ", "\\", "a">>), KeyText(<<"\\", " ", "a">>)}
    /\ LoadProperties(EmptyFcn, cacheFile["A"]) = op.hc

\* the entry of the latest snapshot that corresponds to source entry e has
\* the type and the digest of e
SameInLatest(s, e) ==
    \E h \in LatestListings(s, DirOf(e.p)) :
        /\ EntriesOk(data, h)
        /\ \E l \in Entries(data, h) :
              l.n = e.n /\ l.t = e.t /\ l.h = CurrentDigest(s, e)

\* C37: when a status run from a source directory prints Archived for a file
\* or a link, the entry of that name in the corresponding directory of the
\* latest snapshot has the same type and the same digest as the source entry
\* has now: the entry is unchanged since the latest snapshot.
C37_ArchivedIsUnchanged ==
    [][(Ran("status") /\ HasTop(out'.ctx) /\ out'.ok) =>
          \A e \in SourceEntries(out'.ctx) :
              (e.t # "D" /\ out'.cls[e.p] = StatusArchived) =>
                  SameInLatest(out'.ctx, e)]_vars

\* the backup in progress writes its summary, and the report before it is
\* that of a dry run of the same source, with no edit of the source since
\* that dry run began (no other invocation came between, so the store is
\* the one the dry run saw)
RealAfterDry ==
    /\ op.k = "backup" /\ op.st = "cache" /\ ~op.dry /\ op.clean
    /\ op'.k = "idle" /\ out'.k = "backup" /\ out'.ok
    /\ out.k = "backup" /\ out.ok /\ out.dry /\ out.ctx = op.ctx /\ out.same
SameArchived(s, t) ==
    /\ s.FilesArchived = t.FilesArchived
    /\ s.DirsArchived = t.DirsArchived
    /\ s.BytesArchived = t.BytesArchived
\* the files and links the backup in progress has saved, at any depth
SavedLeaves == {e \in UNION {{op.ents[d][i] : i \in 1..Len(op.ents[d])} : d \in op.scanned} :
                   e.t # "D"}

\* C38: for the same source and store, a dry run of backup reports the same
\* FilesArchived, DirsArchived and BytesArchived as the real run that
\* follows it: it counts exactly the blobs the real run writes.
C38_DryRunCounts ==
    [][RealAfterDry => SameArchived(out.stats, out'.stats)]_vars

\* the same when no two files or links of the source have the same digest
C38_DistinctCounts ==
    [][(RealAfterDry /\ \A e, f \in SavedLeaves : e.h = f.h => e.p = f.p)
          => SameArchived(out.stats, out'.stats)]_vars

\* a real run has followed a dry run of a source without equal files, and
\* both reported blobs to archive
C38_DistinctWitness ==
    /\ op.k = "idle" /\ out.k = "backup" /\ out.ok /\ ~out.dry /\ out.same
    /\ out.prevRoot = out.root /\ out.prevHead = <<"", 0>>
    /\ out.stats.FilesArchived = 3 /\ out.stats.DirsArchived = 2
    /\ Cardinality(out.wrote) = 5

\* the names the listing hash records, and the names of the non-ignored
\* entries of directory dir of source s
RecordedNames(hash) ==
    IF EntriesOk(data, hash) THEN {l.n : l \in Entries(data, hash)} ELSE {}
KeptNames(s, dir) == {Base(p) : p \in ScanKept(src[s], StatusPatterns(src[s]), dir)}
HeadIsWritten == op.k = "backup" /\ op.st = "head" /\ op'.st = "cache" /\ op.clean

\* C39: a backup of a source with a directory that cannot be listed fails and
\* writes no head; that is, the head a backup writes (the source not edited
\* meanwhile) records every non-ignored child of every directory it
\* includes: of the top, and of each directory the top's listing names.
C39_HeadRecordsAll ==
    [][HeadIsWritten =>
          LET root == DirHash(op.ents, TopDir)
          IN /\ heads'[<<HeadDir(op.ctx), op.ts>>] = <<root>>
             /\ RecordedNames(root) = KeptNames(op.ctx, TopDir)
             /\ \A l \in Entries(data, root) :
                   l.t = "D" => RecordedNames(l.h) = KeptNames(op.ctx, <<l.n>>)]_vars

====
